---- MODULE Spec2Model ----
(***************************************************************************)
(* Test-smell detection and git-history prioritization                     *)
(* (backend/app/services/smell_detection.py, git_metrics.py).              *)
(*                                                                         *)
(* Python strings are sequences of one-character strings, dicts are        *)
(* functions, lists are sequences.  A float64 is a record                  *)
(* [nan, zero, e, hi, lo] whose 53-bit significand is hi * 2^26 + lo.      *)
(***************************************************************************)
EXTENDS Integers, Sequences, FiniteSets, TLC

VARIABLES
    pc,       \* "setup" while the inputs are assembled, "done" after the call
    repo,     \* the project directory's repository: [git, has_dotgit, log]
    disk,     \* the test files on disk: sequence of [path, smells]
    call,     \* the operation that ran and its arguments
    ret       \* what the operation returned

vars == <<pc, repo, disk, call, ret>>

(***************************************************************************)
(* Strings                                                                 *)
(***************************************************************************)

\* The characters the model uses, in code-point order.
Ascii ==
    << " ", "-", ".", "/", "0", "1", "2", "3",
       "A", "B", "C", "D", "E", "F", "G", "H", "I", "J", "K", "L", "M",
       "N", "O", "P", "Q", "R", "S", "T", "U", "V", "W", "X", "Y", "Z",
       "\\", "_",
       "a", "b", "c", "d", "e", "f", "g", "h", "i", "j", "k", "l", "m",
       "n", "o", "p", "q", "r", "s", "t", "u", "v", "w", "x", "y", "z",
       "|" >>

Ord(c) == CHOOSE i \in 1..Len(Ascii) : Ascii[i] = c

UpperCase == { Ascii[i] : i \in 9..34 }

\* str.lower() on one character: 'A'..'Z' map to 'a'..'z'.
LowerChar(c) == IF c \in UpperCase THEN Ascii[Ord(c) + 28] ELSE c

Lower(s) == [i \in 1..Len(s) |-> LowerChar(s[i])]

Min2(a, b) == IF a <= b THEN a ELSE b

StartsWith(s, p) == Len(p) <= Len(s) /\ SubSeq(s, 1, Len(p)) = p

EndsWith(s, p) ==
    Len(p) <= Len(s) /\ SubSeq(s, Len(s) - Len(p) + 1, Len(s)) = p

\* sub in s
Contains(s, sub) ==
    \E i \in 1..(Len(s) - Len(sub) + 1) : SubSeq(s, i, i + Len(sub) - 1) = sub

\* s.replace(old, new) for one-character old and new
ReplaceChar(s, old, new) ==
    [i \in 1..Len(s) |-> IF s[i] = old THEN new ELSE s[i]]

\* s.strip(c) for a one-character c
StripChar(s, c) ==
    LET keep == { i \in 1..Len(s) : s[i] /= c }
    IN  IF keep = {} THEN << >>
        ELSE LET lo == CHOOSE i \in keep : \A j \in keep : i <= j
                 hi == CHOOSE i \in keep : \A j \in keep : j <= i
             IN  SubSeq(s, lo, hi)

\* s.strip(): leading and trailing blanks removed
Strip(s) == StripChar(s, " ")

\* s.split('/')[-1]
LastSegment(s) ==
    LET cuts == { i \in 1..Len(s) : s[i] = "/" }
    IN  IF cuts = {} THEN s
        ELSE SubSeq(s, (CHOOSE i \in cuts : \A j \in cuts : j <= i) + 1, Len(s))

\* a < b for Python strings: lexicographic by code point
StrLess(a, b) ==
    \E k \in 1..(Min2(Len(a), Len(b)) + 1) :
        /\ \A j \in 1..(k - 1) : a[j] = b[j]
        /\ IF k > Len(a) THEN k <= Len(b)
           ELSE k <= Len(b) /\ Ord(a[k]) < Ord(b[k])

\* sorted(S) for a set of strings
RECURSIVE SortedStrs(_)
SortedStrs(S) ==
    IF S = {} THEN << >>
    ELSE LET m == CHOOSE x \in S : \A y \in S \ {x} : StrLess(x, y)
         IN  <<m>> \o SortedStrs(S \ {m})

RECURSIVE SeqSum(_)
SeqSum(s) == IF s = << >> THEN 0 ELSE s[1] + SeqSum(Tail(s))

(***************************************************************************)
(* A dict is [keys, at]: its keys in insertion order and its mapping.      *)
(* Two dicts are == in Python when their mappings (at) are equal.          *)
(***************************************************************************)

DictEmpty == [keys |-> << >>, at |-> << >>]

DictHas(d, k) == k \in DOMAIN d.at

\* d[k] = v
DictSet(d, k, v) ==
    [ keys |-> IF DictHas(d, k) THEN d.keys ELSE Append(d.keys, k),
      at   |-> (k :> v) @@ d.at ]

(***************************************************************************)
(* git_metrics.py: commit classification and file classification           *)
(***************************************************************************)

FAULT_KEYWORDS ==
    << <<"b", "u", "g">>,
       <<"f", "i", "x">>,
       <<"e", "r", "r", "o", "r">>,
       <<"d", "e", "f", "e", "c", "t">>,
       <<"i", "s", "s", "u", "e">>,
       <<"f", "a", "u", "l", "t">>,
       <<"c", "r", "a", "s", "h">>,
       <<"p", "a", "t", "c", "h">>,
       <<"r", "e", "p", "a", "i", "r">>,
       <<"c", "o", "r", "r", "e", "c", "t">>,
       <<"r", "e", "s", "o", "l", "v", "e">> >>

\* _is_faulty_commit(message) without the lower-casing
FaultyCaseSensitive(message) ==
    \E k \in 1..Len(FAULT_KEYWORDS) : Contains(message, FAULT_KEYWORDS[k])

_is_faulty_commit(message) ==
    LET msg == Lower(message)
    IN  \E k \in 1..Len(FAULT_KEYWORDS) : Contains(msg, FAULT_KEYWORDS[k])

is_test_file(filename) ==
    LET f == ReplaceChar(Lower(filename), "\\", "/")
    IN  \/ Contains(f, <<"/", "t", "e", "s", "t", "_">>)
        \/ Contains(f, <<"_", "t", "e", "s", "t", ".">>)
        \/ Contains(f, <<"/", "t", "e", "s", "t", "s", "/">>)
        \/ StartsWith(f, <<"t", "e", "s", "t", "_">>)
        \/ StartsWith(f, <<"t", "e", "s", "t", "s", "/">>)

\* is_production_file without its test of is_test_file: any Python source
\* that is not __init__.py or setup.py
ProductionByExtension(filename) ==
    LET f == Lower(filename)
    IN  /\ EndsWith(f, <<".", "p", "y">>)
        /\ ~ EndsWith(f, <<"_", "_", "i", "n", "i", "t", "_", "_", ".", "p", "y">>)
        /\ ~ Contains(f, <<"s", "e", "t", "u", "p", ".", "p", "y">>)


is_production_file(filename) ==
    LET f == Lower(filename)
    IN  /\ EndsWith(f, <<".", "p", "y">>)
        /\ ~ is_test_file(f)
        /\ ~ EndsWith(f, <<"_", "_", "i", "n", "i", "t", "_", "_", ".", "p", "y">>)
        /\ ~ Contains(f, <<"s", "e", "t", "u", "p", ".", "p", "y">>)

_normalize(path) == StripChar(Lower(ReplaceChar(path, "\\", "/")), "/")

paths_match(smell_path, git_path) ==
    LET a  == _normalize(smell_path)
        b  == _normalize(git_path)
        fa == LastSegment(a)
        fb == LastSegment(b)
    IN  IF a = b THEN TRUE
        ELSE IF EndsWith(a, b) \/ EndsWith(b, a) THEN TRUE
        ELSE fa = fb /\ StartsWith(fa, <<"t", "e", "s", "t">>)

(***************************************************************************)
(* git_metrics.py: extract_git_history                                     *)
(*                                                                         *)
(* repo.git is how the two git commands end: "notrepo" (rev-parse exits    *)
(* non-zero), "logfail" (git log exits non-zero, as it does in a           *)
(* repository without commits), "timeout" (subprocess.run raises) or "ok". *)
(* repo.log is the output of git log, one record per line:                 *)
(*   kind "header":  HASH|tail, HASH being 40 hex digits, tail the text    *)
(*                   after the first bar (subject|date);                   *)
(*   kind "tabbed":  a line holding tabs, parts its tab-separated fields;  *)
(*   kind "plain":   any other line (blank, or text without tab or bar).   *)
(***************************************************************************)

Digits == {"0", "1", "2", "3"}

RECURSIVE DigitsValue(_)
DigitsValue(s) ==
    IF s = << >> THEN 0
    ELSE 10 * DigitsValue(SubSeq(s, 1, Len(s) - 1)) + (Ord(s[Len(s)]) - Ord("0"))

IsDigits(s) == s /= << >> /\ \A i \in 1..Len(s) : s[i] \in Digits

\* int(s): [ok |-> FALSE] stands for ValueError
PyInt(s) ==
    LET t == Strip(s)
    IN  IF IsDigits(t) THEN [ok |-> TRUE, val |-> DigitsValue(t)]
        ELSE IF t /= << >> /\ t[1] = "-" /\ IsDigits(Tail(t))
             THEN [ok |-> TRUE, val |-> 0 - DigitsValue(Tail(t))]
        ELSE [ok |-> FALSE, val |-> 0]

\* line.split('|', 2) of a header line; the hash is parts[0]
SplitHeader(line) ==
    LET bars == { i \in 1..Len(line.tail) : line.tail[i] = "|" }
    IN  IF bars = {} THEN << line.hash, line.tail >>
        ELSE LET b == CHOOSE i \in bars : \A j \in bars : i <= j
             IN  << line.hash,
                    SubSeq(line.tail, 1, b - 1),
                    SubSeq(line.tail, b + 1, Len(line.tail)) >>

NoCommit == [some |-> FALSE]

NewCommit(parts) ==
    [ some          |-> TRUE,
      hash          |-> parts[1],
      message       |-> Strip(parts[2]),
      timestamp     |-> Strip(parts[3]),
      is_faulty     |-> _is_faulty_commit(parts[2]),
      files_changed |-> DictEmpty ]

\* current_commit['files_changed'][filename] = {...}
SetFile(commit, filename, additions, deletions) ==
    [commit EXCEPT !.files_changed =
        DictSet(@, filename, [additions |-> additions, deletions |-> deletions])]

\* one iteration of the loop over the log lines (lines 82-109);
\* st = [commits, current, exc], exc being an exception raised by int()
ParseLine(st, line) ==
    IF st.exc THEN st
    ELSE IF line.kind = "header" THEN
        LET appended == IF st.current.some
                        THEN Append(st.commits, st.current) ELSE st.commits
            parts    == SplitHeader(line)
        IN  [ commits |-> appended,
              current |-> IF Len(parts) = 3 THEN NewCommit(parts) ELSE st.current,
              exc     |-> FALSE ]
    ELSE IF line.kind = "tabbed" /\ st.current.some THEN
        IF Len(line.parts) = 3 THEN
            LET add_str == line.parts[1]
                del_str == line.parts[2]
                a == IF add_str = <<"-">> THEN [ok |-> TRUE, val |-> 0]
                     ELSE PyInt(add_str)
                d == IF del_str = <<"-">> THEN [ok |-> TRUE, val |-> 0]
                     ELSE PyInt(del_str)
            IN  IF a.ok /\ d.ok
                THEN [st EXCEPT !.current =
                          SetFile(@, line.parts[3], a.val, d.val)]
                ELSE [st EXCEPT !.exc = TRUE]
        ELSE st
    ELSE st

RECURSIVE ParseLines(_, _)
ParseLines(st, lines) ==
    IF lines = << >> THEN st
    ELSE ParseLines(ParseLine(st, Head(lines)), Tail(lines))

\* the body of the try block (lines 64-112): [exc, commits]
ExtractBody(r) ==
    IF r.git = "timeout" THEN [exc |-> TRUE, commits |-> << >>]
    ELSE IF r.git = "notrepo" THEN [exc |-> FALSE, commits |-> << >>]
    ELSE IF r.git = "logfail" THEN [exc |-> FALSE, commits |-> << >>]
    ELSE LET st == ParseLines(
                       [commits |-> << >>, current |-> NoCommit, exc |-> FALSE],
                       r.log)
         IN  IF st.exc THEN [exc |-> TRUE, commits |-> << >>]
             ELSE [ exc     |-> FALSE,
                    commits |-> IF st.current.some
                                THEN Append(st.commits, st.current)
                                ELSE st.commits ]

\* extract_git_history with the except clause removed
ExtractUncaught(r) ==
    LET body == ExtractBody(r)
    IN  [raised |-> body.exc, value |-> body.commits]

\* extract_git_history(repo_path): [raised, value]
extract_git_history(r) ==
    LET body == ExtractBody(r)
    IN  IF body.exc THEN [raised |-> FALSE, value |-> << >>]
        ELSE [raised |-> FALSE, value |-> body.commits]

(***************************************************************************)
(* git_metrics.py: _build_file_metrics                                     *)
(***************************************************************************)

ZeroMetrics ==
    [total_changes |-> 0, total_churn |-> 0, faulty_changes |-> 0, faulty_churn |-> 0]

\* metrics[filename] of the defaultdict
MetricsOf(metrics, filename) ==
    IF DictHas(metrics, filename) THEN metrics.at[filename] ELSE ZeroMetrics

\* the loop body with the is_faulty test dropped
TouchFileAlwaysFaulty(metrics, commit, filename) ==
    LET change == commit.files_changed.at[filename]
        churn  == change.additions + change.deletions
        old    == MetricsOf(metrics, filename)
        new    == [ total_changes  |-> old.total_changes + 1,
                    total_churn    |-> old.total_churn + churn,
                    faulty_changes |-> old.faulty_changes + 1,
                    faulty_churn   |-> old.faulty_churn + churn ]
    IN  DictSet(metrics, filename, new)

\* the body of the inner loop for one (filename, change) of one commit
TouchFile(metrics, commit, filename) ==
    LET change == commit.files_changed.at[filename]
        churn  == change.additions + change.deletions
        old    == MetricsOf(metrics, filename)
        new    == [ total_changes  |-> old.total_changes + 1,
                    total_churn    |-> old.total_churn + churn,
                    faulty_changes |-> IF commit.is_faulty
                                       THEN old.faulty_changes + 1
                                       ELSE old.faulty_changes,
                    faulty_churn   |-> IF commit.is_faulty
                                       THEN old.faulty_churn + churn
                                       ELSE old.faulty_churn ]
    IN  DictSet(metrics, filename, new)

\* the inner loop: files are the commit's filenames in dict order
RECURSIVE TouchFiles(_, _, _)
TouchFiles(metrics, commit, files) ==
    IF files = << >> THEN metrics
    ELSE TouchFiles(TouchFile(metrics, commit, Head(files)), commit, Tail(files))

\* _build_file_metrics that overwrites a file's entry instead of adding to it
RECURSIVE BuildLastWins(_)
BuildLastWins(commits) ==
    IF commits = << >> THEN DictEmpty
    ELSE LET c    == commits[Len(commits)]
             last == TouchFiles(DictEmpty, c, c.files_changed.keys)
             rest == BuildLastWins(SubSeq(commits, 1, Len(commits) - 1))
         IN  [ keys |-> rest.keys \o
                          SelectSeq(last.keys, LAMBDA k : ~ DictHas(rest, k)),
               at   |-> last.at @@ rest.at ]

RECURSIVE FoldCommits(_, _)
FoldCommits(metrics, commits) ==
    IF commits = << >> THEN metrics
    ELSE FoldCommits(
             TouchFiles(metrics, Head(commits), Head(commits).files_changed.keys),
             Tail(commits))

_build_file_metrics(commits) == FoldCommits(DictEmpty, commits)

(***************************************************************************)
(* float64 arithmetic                                                      *)
(*                                                                         *)
(* The combined metrics are Python floats and numpy float64 arrays, and    *)
(* _spearman compares a standard deviation with 0, so the arithmetic is    *)
(* IEEE 754 binary64 with round-to-nearest-even, bit for bit.  A finite    *)
(* value is zero or (hi * 2^26 + lo) * 2^(e - 52) with 2^26 <= hi < 2^27   *)
(* and 0 <= lo < 2^26; the model's values are never negative.  Divisors    *)
(* are integers below 32 (change totals and population sizes).             *)
(***************************************************************************)

FZero == [nan |-> FALSE, zero |-> TRUE, e |-> 0, hi |-> 0, lo |-> 0]

FNaN == [nan |-> TRUE, zero |-> FALSE, e |-> 0, hi |-> 0, lo |-> 0]

FOne == [nan |-> FALSE, zero |-> FALSE, e |-> 0, hi |-> 2^26, lo |-> 0]

\* the significand (hi, lo) plus one unit in the last place
FIncrement(e, hi, lo) ==
    IF lo + 1 < 2^26
    THEN [nan |-> FALSE, zero |-> FALSE, e |-> e, hi |-> hi, lo |-> lo + 1]
    ELSE IF hi + 1 < 2^27
    THEN [nan |-> FALSE, zero |-> FALSE, e |-> e, hi |-> hi + 1, lo |-> 0]
    ELSE [nan |-> FALSE, zero |-> FALSE, e |-> e + 1, hi |-> 2^26, lo |-> 0]

\* round to nearest, ties to even; cmp is the discarded part compared with
\* half a unit in the last place (-1 below, 0 equal, 1 above)
FRound(e, hi, lo, cmp) ==
    IF cmp > 0 \/ (cmp = 0 /\ lo % 2 = 1)
    THEN FIncrement(e, hi, lo)
    ELSE [nan |-> FALSE, zero |-> FALSE, e |-> e, hi |-> hi, lo |-> lo]

Sign(n) == IF n > 0 THEN 1 ELSE IF n < 0 THEN 0 - 1 ELSE 0

\* the k >= 0 with d * 2^k <= a < d * 2^(k+1), for a >= d
RECURSIVE Log2Quot(_, _)
Log2Quot(a, d) == IF a < 2 * d THEN 0 ELSE 1 + Log2Quot(a, 2 * d)

\* the k >= 0 with a * 2^k >= d > a * 2^(k-1), for 0 < a
RECURSIVE Log2Lift(_, _)
Log2Lift(a, d) == IF a >= d THEN 0 ELSE 1 + Log2Lift(2 * a, d)

\* a / d for Python ints a >= 0, d > 0: the correctly rounded quotient
FRatio(a, d) ==
    IF a = 0 THEN FZero
    ELSE LET up == IF a >= d THEN Log2Quot(a, d) ELSE 0
             dn == IF a >= d THEN 0 ELSE Log2Lift(a, d)
             n  == a * 2^dn
             m  == d * 2^up
             r0 == n - m
             hi == 2^26 + (r0 * 2^26) \div m
             r1 == (r0 * 2^26) % m
             lo == (r1 * 2^26) \div m
             r2 == (r1 * 2^26) % m
         IN  FRound(up - dn, hi, lo, Sign(2 * r2 - m))

\* a significand with a 26-bit extension and a sticky bit, shifted right
ShiftRight1(v) ==
    [ hi |-> v.hi \div 2,
      lo |-> (v.hi % 2) * 2^25 + v.lo \div 2,
      ex |-> (v.lo % 2) * 2^25 + v.ex \div 2,
      st |-> v.st \/ v.ex % 2 = 1 ]

RECURSIVE ShiftRight(_, _)
ShiftRight(v, k) ==
    IF k = 0 THEN v
    ELSE IF v.hi = 0 /\ v.lo = 0 /\ v.ex = 0 THEN v
    ELSE ShiftRight(ShiftRight1(v), k - 1)

\* shifted left, e lowered, until the leading bit is in place
RECURSIVE Normalize(_, _)
Normalize(v, e) ==
    IF v.hi >= 2^26 THEN [v |-> v, e |-> e]
    ELSE Normalize(
             [ hi |-> 2 * v.hi + v.lo \div 2^25,
               lo |-> (v.lo % 2^25) * 2 + v.ex \div 2^25,
               ex |-> (v.ex % 2^25) * 2,
               st |-> v.st ],
             e - 1)

\* the extension and sticky bit against half a unit in the last place
HalfCompare(v) ==
    IF v.ex > 2^25 THEN 1
    ELSE IF v.ex = 2^25 THEN (IF v.st THEN 1 ELSE 0)
    ELSE 0 - 1

FLess(x, y) ==
    IF x.nan \/ y.nan THEN FALSE
    ELSE IF y.zero THEN FALSE
    ELSE IF x.zero THEN TRUE
    ELSE \/ x.e < y.e
         \/ x.e = y.e /\ x.hi < y.hi
         \/ x.e = y.e /\ x.hi = y.hi /\ x.lo < y.lo

\* x == y of floats: NaN equals nothing
FEq(x, y) == ~ x.nan /\ ~ y.nan /\ x = y

\* x + y
FAdd(x, y) ==
    IF x.nan \/ y.nan THEN FNaN
    ELSE IF x.zero THEN y
    ELSE IF y.zero THEN x
    ELSE LET big   == IF FLess(x, y) THEN y ELSE x
             small == IF FLess(x, y) THEN x ELSE y
             s     == ShiftRight(
                          [hi |-> small.hi, lo |-> small.lo, ex |-> 0, st |-> FALSE],
                          big.e - small.e)
             losum == big.lo + s.lo
             sum   == [ hi |-> big.hi + s.hi + losum \div 2^26,
                        lo |-> losum % 2^26,
                        ex |-> s.ex,
                        st |-> s.st ]
             v     == IF sum.hi >= 2^27 THEN ShiftRight1(sum) ELSE sum
             e     == IF sum.hi >= 2^27 THEN big.e + 1 ELSE big.e
         IN  FRound(e, v.hi, v.lo, HalfCompare(v))

\* x / n for an integer n > 0
FDivInt(x, n) ==
    IF x.nan THEN FNaN
    ELSE IF x.zero THEN FZero
    ELSE LET qhi == x.hi \div n
             t   == (x.hi % n) * 2^26 + x.lo
             qlo == t \div n
             u   == (t % n) * 2^26
             q   == Normalize(
                        [hi |-> qhi, lo |-> qlo, ex |-> u \div n, st |-> u % n /= 0],
                        x.e)
         IN  FRound(q.e, q.v.hi, q.v.lo, HalfCompare(q.v))

(***************************************************************************)
(* Correlation coefficients, p-values and scores                           *)
(*                                                                         *)
(* What scipy.stats.spearmanr and the score arithmetic return is carried   *)
(* as a decimal [nan, v], v counting units of 10^-8; a value rounded to    *)
(* four places counts ten-thousandths.  A p-value is carried as its place  *)
(* against the thresholds the code reads: "zero", "below" (0 < p < 0.05),  *)
(* "above" (0.05 <= p < 1), "one", "nan".                                  *)
(***************************************************************************)

\* the units in 1
Unit == 10^8

Dec(v) == [nan |-> FALSE, v |-> v]

DecNaN == [nan |-> TRUE, v |-> 0]

DecAdd(a, b) == IF a.nan \/ b.nan THEN DecNaN ELSE Dec(a.v + b.v)

\* n / d rounded to the nearest integer, ties to the even one (d > 0)
RoundDiv(n, d) ==
    LET q == n \div d
        r == n % d
    IN  IF 2 * r > d \/ (2 * r = d /\ q % 2 = 1) THEN q + 1 ELSE q

\* round(x, 4) of a decimal counting 1/scale: ten-thousandths
\* (scale: 10^4 for units, 2 * 10^4 for halves of a unit)
Round4(x, scale) == IF x.nan THEN DecNaN ELSE Dec(RoundDiv(x.v, scale))

\* the base of the digits of a natural number of any size
Limb == 10^4

\* natural numbers of any size: digits to the base Limb, lowest first
RECURSIVE BigOf(_)
BigOf(n) == IF n = 0 THEN << >> ELSE <<n % Limb>> \o BigOf(n \div Limb)

RECURSIVE BigMulCarry(_, _, _)
BigMulCarry(b, m, carry) ==
    IF b = << >> THEN BigOf(carry)
    ELSE LET t == Head(b) * m + carry
         IN  <<t % Limb>> \o BigMulCarry(Tail(b), m, t \div Limb)

\* b * m for 0 <= m <= Limb
BigMul(b, m) == IF m = 0 THEN << >> ELSE BigMulCarry(b, m, 0)

RECURSIVE BigAddCarry(_, _, _)
BigAddCarry(a, b, carry) ==
    IF a = << >> /\ b = << >> THEN BigOf(carry)
    ELSE LET t == (IF a = << >> THEN 0 ELSE Head(a))
                      + (IF b = << >> THEN 0 ELSE Head(b)) + carry
         IN  <<t % Limb>> \o BigAddCarry(IF a = << >> THEN a ELSE Tail(a),
                                         IF b = << >> THEN b ELSE Tail(b),
                                         t \div Limb)

\* b * Limb
BigShift(b) == IF b = << >> THEN b ELSE <<0>> \o b

\* b * m for 0 <= m <= Limb^2
BigTimes(b, m) ==
    BigAddCarry(BigMul(b, m % Limb), BigShift(BigMul(b, m \div Limb)), 0)

RECURSIVE BigLeq(_, _)
BigLeq(a, b) ==
    IF Len(a) /= Len(b) THEN Len(a) < Len(b)
    ELSE IF a = << >> THEN TRUE
    ELSE IF a[Len(a)] /= b[Len(b)] THEN a[Len(a)] < b[Len(b)]
    ELSE BigLeq(SubSeq(a, 1, Len(a) - 1), SubSeq(b, 1, Len(b) - 1))

\* the largest r in lo..hi with r^2 * q <= bound (lo satisfies it)
RECURSIVE RootSearch(_, _, _, _)
RootSearch(q, bound, lo, hi) ==
    IF lo = hi THEN lo
    ELSE LET mid == (lo + hi + 1) \div 2
         IN  IF BigLeq(BigTimes(BigTimes(BigOf(mid), mid), q), bound)
             THEN RootSearch(q, bound, mid, hi)
             ELSE RootSearch(q, bound, lo, mid - 1)

\* sqrt(p / q) in units, rounded down, for 0 <= p <= q <= Limb^2:
\* the largest r with r^2 * q <= p * Unit^2
RootUnits(p, q) == RootSearch(q, BigTimes(BigTimes(BigOf(p), Unit), Unit), 0, Unit)

\* twice the average rank of x[i] among x (scipy.stats.rankdata)
Rank2(x, i) ==
    2 * Cardinality({ j \in 1..Len(x) : FLess(x[j], x[i]) })
        + Cardinality({ j \in 1..Len(x) : FEq(x[j], x[i]) }) + 1

Ranks2(x) == [i \in 1..Len(x) |-> Rank2(x, i)]

\* |rho| above which the two-sided p-value of Student's t with n - 2
\* degrees of freedom is below 0.05, in units, for n = 3..8
CriticalRho == <<99691733, 95000000, 87833944, 81140135, 75449223, 70673440>>

\* scipy.stats.spearmanr(x, y) for len(x) >= 3: Pearson's r of the ranks;
\* nan for a constant input
spearmanr(x, y) ==
    LET n   == Len(x)
        rx  == Ranks2(x)
        ry  == Ranks2(y)
        sx  == SeqSum(rx)
        sy  == SeqSum(ry)
        sxy == SeqSum([i \in 1..n |-> rx[i] * ry[i]])
        sxx == SeqSum([i \in 1..n |-> rx[i] * rx[i]])
        syy == SeqSum([i \in 1..n |-> ry[i] * ry[i]])
        num == n * sxy - sx * sy
        dx  == n * sxx - sx * sx
        dy  == n * syy - sy * sy
    IN  IF dx = 0 \/ dy = 0 THEN [rho |-> DecNaN, p |-> "nan"]
        ELSE LET r == RootUnits(num * num, dx * dy)
             IN  [ rho |-> Dec(Sign(num) * r),
                   p   |-> IF num * num = dx * dy THEN "zero"
                           ELSE IF r > CriticalRho[n - 2] THEN "below"
                           ELSE "above" ]

\* numpy: arr.mean() of a float64 array (fewer than 9 elements: the sum is
\* taken left to right)
RECURSIVE FSum(_)
FSum(x) ==
    IF x = << >> THEN FZero
    ELSE FAdd(FSum(SubSeq(x, 1, Len(x) - 1)), x[Len(x)])

ArrMean(x) == IF x = << >> THEN FNaN ELSE FDivInt(FSum(x), Len(x))

\* numpy: arr.std() == 0.  The deviations x[i] - mean are squared, averaged
\* and rooted; the result is 0 exactly when every deviation is 0, and nan
\* for an empty array.
StdIsZero(x) == x /= << >> /\ \A i \in 1..Len(x) : FEq(x[i], ArrMean(x))

_spearman(x, y) ==
    IF StdIsZero(x) \/ StdIsZero(y) THEN [rho |-> Dec(0), p |-> "one"]
    ELSE IF Len(x) < 3 THEN [rho |-> Dec(0), p |-> "one"]
    ELSE spearmanr(x, y)

\* p < 0.05
Below005(p) == p \in {"zero", "below"}

\* lines 392-410 for the sums cp, fp (units) and ps (1/scale of a unit);
\* rhos: the results of the four _spearman calls, cf, ce, ff, fe in order
ScoreRecord(rhos, cp, fp, ps, scale) ==
    [ change_frequency_rho |-> Round4(rhos[1].rho, 10^4),
      change_extent_rho    |-> Round4(rhos[2].rho, 10^4),
      fault_frequency_rho  |-> Round4(rhos[3].rho, 10^4),
      fault_extent_rho     |-> Round4(rhos[4].rho, 10^4),
      p_values    |-> [cf |-> rhos[1].p, ce |-> rhos[2].p,
                       ff |-> rhos[3].p, fe |-> rhos[4].p],
      significant |-> [cf |-> Below005(rhos[1].p), ce |-> Below005(rhos[2].p),
                       ff |-> Below005(rhos[3].p), fe |-> Below005(rhos[4].p)],
      cp_score             |-> Round4(cp, 10^4),
      fp_score             |-> Round4(fp, 10^4),
      prioritization_score |-> Round4(ps, scale * 10^4) ]

\* w tenths of cp and the rest of fp, in tenths of a unit
WeightedSum(cp, fp, w) ==
    IF cp.nan \/ fp.nan THEN DecNaN ELSE Dec(w * cp.v + (10 - w) * fp.v)

\* the scores with CP weighted by the caller's cp_weight (tenths) and FP by
\* the rest, in place of the plain mean
ScoresWeighted(rhos) ==
    ScoreRecord(rhos, DecAdd(rhos[1].rho, rhos[2].rho),
                DecAdd(rhos[3].rho, rhos[4].rho),
                WeightedSum(DecAdd(rhos[1].rho, rhos[2].rho),
                            DecAdd(rhos[3].rho, rhos[4].rho), call.cp_weight),
                10)

\* lines 385-410: the scores of one smell type from its four correlations;
\* cp_score + fp_score counts halves of a unit of their mean
Scores(rhos) ==
    ScoreRecord(rhos, DecAdd(rhos[1].rho, rhos[2].rho),
                DecAdd(rhos[3].rho, rhos[4].rho),
                DecAdd(DecAdd(rhos[1].rho, rhos[2].rho),
                       DecAdd(rhos[3].rho, rhos[4].rho)),
                2)

(***************************************************************************)
(* The co-change map and the combined vectors                              *)
(***************************************************************************)

Range(s) == { s[i] : i \in 1..Len(s) }

\* min() of a non-empty set of integers
MinOf(S) == CHOOSE m \in S : \A k \in S : m <= k

\* the first element of list that path matches, or << >> for none
FirstMatch(path, list) ==
    LET hits == { i \in 1..Len(list) : paths_match(path, list[i]) }
    IN  IF hits = {} THEN << >> ELSE <<list[MinOf(hits)]>>

\* lines 231-236: each changed test file gives the production files to the
\* first canonical test file it matches
RECURSIVE CochangeTests(_, _, _, _)
CochangeTests(cochange, test_files, changed_test, changed_prod) ==
    IF changed_test = << >> THEN cochange
    ELSE LET tf   == Head(changed_test)
             hit  == { i \in 1..Len(test_files) : paths_match(test_files[i], tf) }
             next == IF hit = {} THEN cochange
                     ELSE LET canonical_tf == test_files[MinOf(hit)]
                              old == IF DictHas(cochange, canonical_tf)
                                     THEN cochange.at[canonical_tf] ELSE {}
                          IN  DictSet(cochange, canonical_tf,
                                      old \cup Range(changed_prod))
         IN  CochangeTests(next, test_files, Tail(changed_test), changed_prod)

RECURSIVE CochangeCommits(_, _, _)
CochangeCommits(cochange, test_files, commits) ==
    IF commits = << >> THEN cochange
    ELSE LET changed      == Head(commits).files_changed.keys
             changed_test == SelectSeq(changed, is_test_file)
             changed_prod == SelectSeq(changed, is_production_file)
             next == IF changed_test = << >> \/ changed_prod = << >>
                     THEN cochange
                     ELSE CochangeTests(cochange, test_files,
                                        changed_test, changed_prod)
         IN  CochangeCommits(next, test_files, Tail(commits))

_build_cochange_map(test_files, commits) ==
    CochangeCommits(DictEmpty, test_files, commits)

\* lines 274-279 and 290-295: file_metrics.get(path, {}), then the first
\* git path that matches; every m.get(key, 0) of a missing entry is 0
LookupMetrics(file_metrics, path) ==
    IF DictHas(file_metrics, path) THEN file_metrics.at[path]
    ELSE LET hit == FirstMatch(path, file_metrics.keys)
         IN  IF hit = << >> THEN ZeroMetrics ELSE file_metrics.at[hit[1]]

AddMetrics(a, b) ==
    [ total_changes  |-> a.total_changes + b.total_changes,
      total_churn    |-> a.total_churn + b.total_churn,
      faulty_changes |-> a.faulty_changes + b.faulty_changes,
      faulty_churn   |-> a.faulty_churn + b.faulty_churn ]

\* lines 287-299: the four sums over the co-changed production files
RECURSIVE ProdSums(_, _)
ProdSums(file_metrics, prod_files) ==
    IF prod_files = {} THEN ZeroMetrics
    ELSE LET pf == CHOOSE f \in prod_files : TRUE
         IN  AddMetrics(LookupMetrics(file_metrics, pf),
                        ProdSums(file_metrics, prod_files \ {pf}))

\* sum(m['total_changes'] for f, m in file_metrics.items() if f in files)
TotalChanges(file_metrics, files) ==
    SeqSum([i \in 1..Len(files) |-> file_metrics.at[files[i]].total_changes])

\* sum(...) or 1
OrOne(n) == IF n = 0 THEN 1 ELSE n

\* lines 281-284 and 301-306: the metric each combined value is made from
MetricOf ==
    [ chg_freq |-> "total_changes", chg_ext |-> "total_churn",
      fault_freq |-> "faulty_changes", fault_ext |-> "faulty_churn" ]

\* lines 301-306: the four combined values from the two sets of sums
Combine(pm, tm, prod_total, test_total) ==
    [ k \in DOMAIN MetricOf |->
        FAdd(FRatio(pm[MetricOf[k]], prod_total),
             FRatio(tm[MetricOf[k]], test_total)) ]

\* lines 273-306: the vector of one test file
VectorOf(tf, file_metrics, cochange_map, prod_total, test_total) ==
    Combine(ProdSums(file_metrics,
                     IF DictHas(cochange_map, tf) THEN cochange_map.at[tf] ELSE {}),
            LookupMetrics(file_metrics, tf), prod_total, test_total)

RECURSIVE VectorsOf(_, _, _, _, _, _)
VectorsOf(vectors, test_files, file_metrics, cochange_map, prod_total, test_total) ==
    IF test_files = << >> THEN vectors
    ELSE VectorsOf(DictSet(vectors, Head(test_files),
                           VectorOf(Head(test_files), file_metrics, cochange_map,
                                    prod_total, test_total)),
                   Tail(test_files), file_metrics, cochange_map,
                   prod_total, test_total)

_build_combined_vectors(test_files, file_metrics, cochange_map, total_commits) ==
    VectorsOf(DictEmpty, test_files, file_metrics, cochange_map,
              OrOne(TotalChanges(file_metrics,
                                 SelectSeq(file_metrics.keys, is_production_file))),
              OrOne(TotalChanges(file_metrics,
                                 SelectSeq(file_metrics.keys, is_test_file))))

(***************************************************************************)
(* Prioritization records and the ranking                                  *)
(***************************************************************************)

\* a table in which one smell type is abbreviated by its initials
AbbreviationsByInitials ==
    [ t \in { "Conditional Test Logic", "Assertion Roulette", "Duplicate Assert",
              "Magic Number Test", "Obscure In-Line Setup", "Redundant Assertion",
              "Exception Handling", "Constructor Initialization",
              "Suboptimal Assert", "Test Maverick", "Redundant Print",
              "General Fixture", "Sleepy Test", "Empty Test",
              "Lack of Cohesion of Test Cases" } |->
        CASE t = "Conditional Test Logic"         -> "CTL"
          [] t = "Assertion Roulette"             -> "AR"
          [] t = "Duplicate Assert"               -> "DA"
          [] t = "Magic Number Test"              -> "MNT"
          [] t = "Obscure In-Line Setup"          -> "OIS"
          [] t = "Redundant Assertion"            -> "RA"
          [] t = "Exception Handling"             -> "EH"
          [] t = "Constructor Initialization"     -> "CI"
          [] t = "Suboptimal Assert"              -> "SA"
          [] t = "Test Maverick"                  -> "TM"
          [] t = "Redundant Print"                -> "RP"
          [] t = "General Fixture"                -> "GF"
          [] t = "Sleepy Test"                    -> "ST"
          [] t = "Empty Test"                     -> "ET"
          [] t = "Lack of Cohesion of Test Cases" -> "LCTC" ]


SMELL_ABBREVIATIONS ==
    [ t \in { "Conditional Test Logic", "Assertion Roulette", "Duplicate Assert",
              "Magic Number Test", "Obscure In-Line Setup", "Redundant Assertion",
              "Exception Handling", "Constructor Initialization",
              "Suboptimal Assert", "Test Maverick", "Redundant Print",
              "General Fixture", "Sleepy Test", "Empty Test",
              "Lack of Cohesion of Test Cases" } |->
        CASE t = "Conditional Test Logic"         -> "CTL"
          [] t = "Assertion Roulette"             -> "AR"
          [] t = "Duplicate Assert"               -> "DA"
          [] t = "Magic Number Test"              -> "MNT"
          [] t = "Obscure In-Line Setup"          -> "OS"
          [] t = "Redundant Assertion"            -> "RA"
          [] t = "Exception Handling"             -> "EH"
          [] t = "Constructor Initialization"     -> "CI"
          [] t = "Suboptimal Assert"              -> "SA"
          [] t = "Test Maverick"                  -> "TM"
          [] t = "Redundant Print"                -> "RP"
          [] t = "General Fixture"                -> "GF"
          [] t = "Sleepy Test"                    -> "ST"
          [] t = "Empty Test"                     -> "ET"
          [] t = "Lack of Cohesion of Test Cases" -> "LCTC" ]

\* lines 360-362: the instances of each type, types in order of first sight
RECURSIVE GroupByType(_, _)
GroupByType(smells_by_type, smell_instances) ==
    IF smell_instances = << >> THEN smells_by_type
    ELSE LET inst == Head(smell_instances)
             old  == IF DictHas(smells_by_type, inst.type)
                     THEN smells_by_type.at[inst.type] ELSE << >>
         IN  GroupByType(DictSet(smells_by_type, inst.type, Append(old, inst)),
                         Tail(smell_instances))

\* lines 364-367: one column of the vectors over the population
Column(combined_vectors, all_test_files, field) ==
    [ i \in 1..Len(all_test_files) |->
        IF DictHas(combined_vectors, all_test_files[i])
        THEN combined_vectors.at[all_test_files[i]][field] ELSE FZero ]

\* lines 375-378
Presence(all_test_files, smell_files) ==
    [ i \in 1..Len(all_test_files) |->
        IF \E sf \in smell_files : paths_match(all_test_files[i], sf)
        THEN FOne ELSE FZero ]

\* lines 364-367: the columns, in the order of the _spearman calls
ColumnNames == <<"chg_freq", "chg_ext", "fault_freq", "fault_ext">>

\* lines 380-383
Correlations(presence, combined_vectors, all_test_files) ==
    [ k \in 1..4 |->
        _spearman(presence, Column(combined_vectors, all_test_files, ColumnNames[k])) ]

\* lines 389-414: the record of a smell type around its scores; data_rank
\* 0: not set yet
RecordAround(scores, smell_type, instances, smell_files) ==
    scores @@
    [ smell_type          |-> smell_type,
      abbreviation        |-> IF smell_type \in DOMAIN SMELL_ABBREVIATIONS
                              THEN SMELL_ABBREVIATIONS[smell_type]
                              ELSE "UNKN",
      instance_count      |-> Len(instances),
      affected_test_files |-> Cardinality(smell_files),
      files_with_smell    |-> smell_files,
      data_rank           |-> 0 ]

\* set(inst['file'] for inst in instances)
FilesOf(smell_instances) ==
    { smell_instances[i].file : i \in 1..Len(smell_instances) }

\* lines 371-414: the record of one smell type
RecordOf(smell_type, instances, combined_vectors, all_test_files) ==
    RecordAround(Scores(Correlations(Presence(all_test_files, FilesOf(instances)),
                                     combined_vectors, all_test_files)),
                 smell_type, instances, FilesOf(instances))

RECURSIVE RecordsOf(_, _, _, _, _)
RecordsOf(results, types, smells_by_type, combined_vectors, all_test_files) ==
    IF types = << >> THEN results
    ELSE RecordsOf(DictSet(results, Head(types),
                           RecordOf(Head(types), smells_by_type.at[Head(types)],
                                    combined_vectors, all_test_files)),
                   Tail(types), smells_by_type, combined_vectors, all_test_files)

calculate_spearman_metrics(smell_instances, combined_vectors, all_test_files) ==
    LET smells_by_type == GroupByType(DictEmpty, smell_instances)
    IN  RecordsOf(DictEmpty, smells_by_type.keys, smells_by_type,
                  combined_vectors, all_test_files)

\* float <: false whenever a side is nan
KeyLess(a, b) ==
    /\ ~a.prioritization_score.nan
    /\ ~b.prioritization_score.nan
    /\ a.prioritization_score.v < b.prioritization_score.v

Reverse(s) == [i \in 1..Len(s) |-> s[Len(s) + 1 - i]]

\* list.sort, count_run: the length of the run that opens s, n entries of
\* it known
RECURSIVE CountRun(_, _, _)
CountRun(s, n, descending) ==
    IF n = Len(s) THEN n
    ELSE IF KeyLess(s[n + 1], s[n]) = descending
         THEN CountRun(s, n + 1, descending)
         ELSE n

\* list.sort, binarysort: where pivot goes among the sorted s[l+1..r]
RECURSIVE InsertionPoint(_, _, _, _)
InsertionPoint(s, pivot, l, r) ==
    IF l >= r THEN l
    ELSE LET p == l + (r - l) \div 2
         IN  IF KeyLess(pivot, s[p + 1])
             THEN InsertionPoint(s, pivot, l, p)
             ELSE InsertionPoint(s, pivot, p + 1, r)

\* list.sort, binarysort: s[1..start] is sorted, the rest is inserted
RECURSIVE BinarySort(_, _)
BinarySort(s, start) ==
    IF start >= Len(s) THEN s
    ELSE LET pivot == s[start + 1]
             l     == InsertionPoint(s, pivot, 0, start)
         IN  BinarySort(SubSeq(s, 1, l) \o <<pivot>> \o SubSeq(s, l + 1, start)
                            \o SubSeq(s, start + 2, Len(s)),
                        start + 1)

\* an ascending sort of the values, reversed afterwards: entries with the
\* same score come out in the reverse of their input order
SortedThenReversed(values) ==
    Reverse(BinarySort(values, 1))


\* sorted(values, key=prioritization_score, reverse=True) for fewer than 64
\* values: reverse, find the opening run, insert the rest, reverse
SortedByScore(values) ==
    IF Len(values) < 2 THEN values
    ELSE LET r          == Reverse(values)
             descending == KeyLess(r[2], r[1])
             n          == CountRun(r, 2, descending)
             run        == IF descending
                           THEN Reverse(SubSeq(r, 1, n)) \o SubSeq(r, n + 1, Len(r))
                           ELSE r
         IN  Reverse(BinarySort(run, n))

\* rank_smells(metrics): the ranked list, and metrics as the call leaves it
\* (the entries of the list are the records of metrics themselves)
rank_smells(metrics) ==
    LET values == [i \in 1..Len(metrics.keys) |-> metrics.at[metrics.keys[i]]]
        sorted == SortedByScore(values)
        ranked == [i \in 1..Len(sorted) |-> [sorted[i] EXCEPT !.data_rank = i]]
    IN  [ ranked  |-> ranked,
          metrics |-> [ keys |-> metrics.keys,
                        at   |-> [ k \in DOMAIN metrics.at |->
                                     ranked[CHOOSE i \in 1..Len(ranked) :
                                                ranked[i].smell_type = k] ] ] ]

(***************************************************************************)
(* analyze_project_with_git and detect_smells_for_project                  *)
(*                                                                         *)
(* A result dict is a record of all the keys any result has; keys is the   *)
(* set of keys the dict holds and null the keys among them whose value is  *)
(* None.  A text is the sequence of its pieces.                            *)
(***************************************************************************)

NoStatistics ==
    [ total_commits |-> 0, faulty_commits |-> 0, fault_commit_pct |-> 0,
      total_test_files |-> 0, total_prod_files |-> 0,
      smell_types_analyzed |-> 0, total_smell_instances |-> 0 ]

NoGitResult ==
    [ keys |-> {}, null |-> {}, error |-> << >>, note |-> << >>,
      metrics |-> DictEmpty, ranked_smells |-> << >>, statistics |-> NoStatistics ]

\* {'error': text, 'metrics': {}}
ErrorResult(text) ==
    [NoGitResult EXCEPT !.keys = {"error", "metrics"}, !.error = text]

\* lines 508-538: the ranking and the result; fault_commit_pct counts
\* hundredths
RankedResult(ranking, commits, all_test_files, total_prod_files, smell_instances) ==
    [ NoGitResult EXCEPT
        !.keys          = {"ranked_smells", "metrics", "statistics"},
        !.ranked_smells = ranking.ranked,
        !.metrics       = ranking.metrics,
        !.statistics    =
            [ total_commits         |-> Len(commits),
              faulty_commits        |-> Len(SelectSeq(commits, LAMBDA c : c.is_faulty)),
              fault_commit_pct      |->
                  RoundDiv(10000 * Len(SelectSeq(commits, LAMBDA c : c.is_faulty)),
                           Len(commits)),
              total_test_files      |-> Len(all_test_files),
              total_prod_files      |-> total_prod_files,
              smell_types_analyzed  |-> Len(ranking.ranked),
              total_smell_instances |-> Len(smell_instances) ] ]

\* lines 505-538
AnalyzeMetrics(metrics, commits, all_test_files, total_prod_files, smell_instances) ==
    IF metrics.keys = << >>
    THEN ErrorResult(<<"No metrics could be computed. Check smell instances.">>)
    ELSE RankedResult(rank_smells(metrics), commits, all_test_files,
                      total_prod_files, smell_instances)

\* lines 488-538
AnalyzePopulation(all_test_files, file_metrics, commits, total_prod_files, smell_instances) ==
    IF all_test_files = << >>
    THEN ErrorResult(<<"No test files found in git history or smell instances.">>)
    ELSE AnalyzeMetrics(
             calculate_spearman_metrics(
                 smell_instances,
                 _build_combined_vectors(
                     all_test_files, file_metrics,
                     _build_cochange_map(all_test_files, commits), Len(commits)),
                 all_test_files),
             commits, all_test_files, total_prod_files, smell_instances)

\* the population of history alone, whatever files carry smells
PopulationOfHistory(file_metrics, smell_test_files) ==
    SortedStrs({ f \in Range(file_metrics.keys) : is_test_file(f) })

\* lines 476 and 482-483: sorted(smell_test_files | set(all_git_test_files))
PopulationOf(file_metrics, smell_test_files) ==
    SortedStrs(smell_test_files
                   \cup { f \in Range(file_metrics.keys) : is_test_file(f) })

\* lines 475-538
AnalyzeFiles(file_metrics, commits, smell_instances) ==
    AnalyzePopulation(
        PopulationOf(file_metrics, FilesOf(smell_instances)),
        file_metrics, commits,
        Cardinality({ f \in Range(file_metrics.keys) : is_production_file(f) }),
        smell_instances)

\* lines 465-538
AnalyzeCommits(commits, smell_instances) ==
    IF commits = << >>
    THEN ErrorResult(<<"No git history found or not a git repository.">>)
    ELSE AnalyzeFiles(_build_file_metrics(commits), commits, smell_instances)

\* analyze_project_with_git(project_path, smell_instances)
analyze_project_with_git(project, smell_instances) ==
    AnalyzeCommits(extract_git_history(project.repo).value, smell_instances)

TypeErrorText ==
    "analyze_project_with_git() takes 2 positional arguments but 3 were given"

\* the call analyze_project_with_git(*args): the def takes two parameters
Apply_analyze_project_with_git(args) ==
    IF Len(args) /= 2
    THEN [raised |-> TRUE, exc |-> TypeErrorText, value |-> NoGitResult]
    ELSE [raised |-> FALSE, exc |-> "",
          value |-> analyze_project_with_git(args[1], args[2])]

\* project_path.glob("**/test_*.py") and glob("**/*_test.py"): the files of
\* the project whose name fits, in directory order
FitsTestPrefix(file) ==
    LET name == LastSegment(file.path)
    IN  /\ Len(name) >= 8
        /\ StartsWith(name, <<"t", "e", "s", "t", "_">>)
        /\ EndsWith(name, <<".", "p", "y">>)

FitsTestSuffix(file) ==
    EndsWith(LastSegment(file.path), <<"_", "t", "e", "s", "t", ".", "p", "y">>)

(***************************************************************************)
(* smell_detection.py: the syntax tree of a test file                      *)
(*                                                                         *)
(* A node of the tree ast.parse returns is                                 *)
(*   [type, lineno, name, value, ops, fields, children]:                   *)
(* type is the node class, lineno its line (0: the class has no lineno),   *)
(* name the identifier it carries (FunctionDef and ClassDef name, Name id, *)
(* Attribute attr), value the value of a Constant, ops the operators of a  *)
(* Compare, children the child nodes in the order of ast.iter_child_nodes  *)
(* and fields the field each child belongs to.  Nodes no detector looks at *)
(* and that have no children (arguments, expression contexts, operators)   *)
(* are left out.  A source text is the same tree before line numbers are   *)
(* known, each statement on a line of its own.                             *)
(***************************************************************************)

NoValue == [t |-> "none", n |-> 0, s |-> << >>]

Node(type, name, value, ops, fields, children) ==
    [ type |-> type, lineno |-> 0, name |-> name, value |-> value, ops |-> ops,
      fields |-> fields, children |-> children ]

Name(id) == Node("Name", id, NoValue, << >>, << >>, << >>)

Constant(value) == Node("Constant", << >>, value, << >>, << >>, << >>)

Attribute(value, attr) == Node("Attribute", attr, NoValue, << >>, <<"value">>, <<value>>)

Call(func, args) ==
    Node("Call", << >>, NoValue, << >>,
         <<"func">> \o [i \in 1..Len(args) |-> "args"], <<func>> \o args)

Compare(left, ops, comparators) ==
    Node("Compare", << >>, NoValue, ops,
         <<"left">> \o [i \in 1..Len(comparators) |-> "comparators"],
         <<left>> \o comparators)

PassStmt == Node("Pass", << >>, NoValue, << >>, << >>, << >>)

ExprStmt(value) == Node("Expr", << >>, NoValue, << >>, <<"value">>, <<value>>)

AssertStmt(test) == Node("Assert", << >>, NoValue, << >>, <<"test">>, <<test>>)

AssertMsgStmt(test, msg) ==
    Node("Assert", << >>, NoValue, << >>, <<"test", "msg">>, <<test, msg>>)

AssignStmt(target, value) ==
    Node("Assign", << >>, NoValue, << >>, <<"targets", "value">>, <<target, value>>)

\* if test: and while test: with their body
Block(type, test, body) ==
    Node(type, << >>, NoValue, << >>,
         <<"test">> \o [i \in 1..Len(body) |-> "body"], <<test>> \o body)

\* for target in iter: with its body
ForStmt(target, iter, body) ==
    Node("For", << >>, NoValue, << >>,
         <<"target", "iter">> \o [i \in 1..Len(body) |-> "body"],
         <<target, iter>> \o body)

\* except: or except type:
ExceptHandler(type, body) ==
    Node("ExceptHandler", << >>, NoValue, << >>,
         [i \in 1..Len(type) |-> "type"] \o [i \in 1..Len(body) |-> "body"],
         type \o body)

TryStmt(body, handlers) ==
    Node("Try", << >>, NoValue, << >>,
         [i \in 1..Len(body) |-> "body"] \o [i \in 1..Len(handlers) |-> "handlers"],
         body \o handlers)

FunctionDef(name, body) ==
    Node("FunctionDef", name, NoValue, << >>, [i \in 1..Len(body) |-> "body"], body)

ClassDef(name, body) ==
    Node("ClassDef", name, NoValue, << >>, [i \in 1..Len(body) |-> "body"], body)

Module(body) ==
    Node("Module", << >>, NoValue, << >>, [i \in 1..Len(body) |-> "body"], body)

\* node.<field>: the children in the field, in order
RECURSIVE Pick(_, _, _)
Pick(fields, children, field) ==
    IF fields = << >> THEN << >>
    ELSE (IF Head(fields) = field THEN <<Head(children)>> ELSE << >>)
             \o Pick(Tail(fields), Tail(children), field)

FieldOf(node, field) == Pick(node.fields, node.children, field)

\* the node classes that open a line of their own
StatementTypes ==
    { "FunctionDef", "ClassDef", "Pass", "Expr", "Assert", "Assign", "If", "For",
      "While", "Try", "ExceptHandler" }

\* ast.parse, line numbers: a node at a line, its expressions on the same
\* line, its statements on the lines that follow; next is the first line
\* after the node
RECURSIVE Layout(_, _)
RECURSIVE LayoutAll(_, _, _)
Layout(node, line) ==
    LET laid == LayoutAll(node.children, line, line + 1)
    IN  [ node |-> [node EXCEPT !.lineno = line, !.children = laid.nodes],
          next |-> laid.next ]

LayoutAll(children, line, next) ==
    IF children = << >> THEN [nodes |-> << >>, next |-> next]
    ELSE IF Head(children).type \in StatementTypes
    THEN LET one  == Layout(Head(children), next)
             rest == LayoutAll(Tail(children), line, one.next)
         IN  [nodes |-> <<one.node>> \o rest.nodes, next |-> rest.next]
    ELSE LET rest == LayoutAll(Tail(children), line, next)
         IN  [ nodes |-> <<Layout(Head(children), line).node>> \o rest.nodes,
               next  |-> rest.next ]

\* a compound statement without a statement in its block
HasEmptyBlock(node) ==
    /\ node.type \in {"FunctionDef", "ClassDef", "If", "For", "While", "Try",
                      "ExceptHandler"}
    /\ FieldOf(node, "body") = << >>

\* ast.walk: breadth first, the children of a node in order
RECURSIVE WalkQueue(_)
WalkQueue(todo) ==
    IF todo = << >> THEN << >>
    ELSE <<Head(todo)>> \o WalkQueue(Tail(todo) \o Head(todo).children)

walk(node) == WalkQueue(<<node>>)

\* test_file.read_text() and ast.parse(source): raised says that one of them
\* raises (an unreadable file, a syntax error such as an empty block)
Parse(source) ==
    IF source.type = "Module" /\ ~ \E n \in Range(walk(source)) : HasEmptyBlock(n)
    THEN [ raised |-> FALSE,
           tree   |-> [source EXCEPT
                         !.children = LayoutAll(source.children, 0, 1).nodes] ]
    ELSE [raised |-> TRUE, tree |-> Module(<< >>)]

OfType(nodes, types) == SelectSeq(nodes, LAMBDA n : n.type \in types)

(***************************************************************************)
(* Constants of the source and ast.unparse                                 *)
(*                                                                         *)
(* A value is [t, n, s]: its type (bool, int, float, str, NoneType), its   *)
(* number (True is 1, a float is whole) and the text of a str.             *)
(***************************************************************************)

PyBool(b) == [t |-> "bool", n |-> IF b THEN 1 ELSE 0, s |-> << >>]

PyIntValue(n) == [t |-> "int", n |-> n, s |-> << >>]

PyFloat(n) == [t |-> "float", n |-> n, s |-> << >>]

PyStr(s) == [t |-> "str", n |-> 0, s |-> s]

PyNone == [t |-> "NoneType", n |-> 0, s |-> << >>]

IsNumber(value) == value.t \in {"bool", "int", "float"}

\* a == b of two constants: numbers by value whatever their type
PyEq(a, b) ==
    IF IsNumber(a) /\ IsNumber(b) THEN a.n = b.n
    ELSE a.t = b.t /\ a.s = b.s

DecimalDigits == <<"0", "1", "2", "3", "4", "5", "6", "7", "8", "9">>

\* str(n) of an int
RECURSIVE IntText(_)
IntText(n) ==
    IF n < 0 THEN <<"-">> \o IntText(0 - n)
    ELSE IF n < 10 THEN <<DecimalDigits[n + 1]>>
    ELSE IntText(n \div 10) \o <<DecimalDigits[(n % 10) + 1]>>

\* repr(value)
Repr(value) ==
    CASE value.t = "bool"  -> IF value.n = 1 THEN <<"T", "r", "u", "e">>
                              ELSE <<"F", "a", "l", "s", "e">>
      [] value.t = "int"   -> IntText(value.n)
      [] value.t = "float" -> IntText(value.n) \o <<".", "0">>
      [] value.t = "str"   -> <<"'">> \o value.s \o <<"'">>
      [] OTHER             -> <<"N", "o", "n", "e">>

OperatorText(op) ==
    CASE op = "Eq"    -> <<"=", "=">>
      [] op = "NotEq" -> <<"!", "=">>
      [] op = "Lt"    -> <<"<">>
      [] op = "Gt"    -> <<">">>
      [] op = "Is"    -> <<"i", "s">>
      [] OTHER        -> <<"i", "n">>

\* ast.unparse of an expression of names, constants, attributes, calls and
\* comparisons
RECURSIVE unparse(_)
RECURSIVE UnparseArgs(_)
RECURSIVE UnparseRest(_, _)
unparse(node) ==
    CASE node.type = "Name"      -> node.name
      [] node.type = "Constant"  -> Repr(node.value)
      [] node.type = "Attribute" ->
             unparse(node.children[1]) \o <<".">> \o node.name
      [] node.type = "Call"      ->
             unparse(node.children[1]) \o <<"(">>
                 \o UnparseArgs(Tail(node.children)) \o <<")">>
      [] OTHER                   ->
             unparse(node.children[1])
                 \o UnparseRest(node.ops, Tail(node.children))

UnparseArgs(args) ==
    IF args = << >> THEN << >>
    ELSE IF Len(args) = 1 THEN unparse(args[1])
    ELSE unparse(args[1]) \o <<",", " ">> \o UnparseArgs(Tail(args))

UnparseRest(ops, comparators) ==
    IF ops = << >> THEN << >>
    ELSE <<" ">> \o OperatorText(Head(ops)) \o <<" ">> \o unparse(Head(comparators))
             \o UnparseRest(Tail(ops), Tail(comparators))

(***************************************************************************)
(* smell_detection.py: the detectors                                       *)
(*                                                                         *)
(* A smell is [type, line, message]; a message is the text with its        *)
(* placeholders, the numbers that fill them and the expression it quotes.  *)
(***************************************************************************)

Message(text, count, other, expr) ==
    [text |-> text, count |-> count, other |-> other, expr |-> expr]

Smell(type, line, message) == [type |-> type, line |-> line, message |-> message]

\* the smell for each node of the list, at the node's line
SmellEach(nodes, type, message) ==
    [i \in 1..Len(nodes) |-> Smell(type, nodes[i].lineno, message)]

\* the smell for the first node of the list, if there is one
SmellFirst(nodes, type, message) ==
    IF nodes = << >> THEN << >> ELSE <<Smell(type, nodes[1].lineno, message)>>

TestPrefix == <<"t", "e", "s", "t", "_">>

AssertionRouletteFromThree(func_node, assertions, no_msg) ==
    IF Len(assertions) >= 3 /\ Len(no_msg) >= 3
    THEN <<Smell("Assertion Roulette", func_node.lineno,
                 Message("{} assertions have no failure message", Len(no_msg),
                         0, << >>))>>
    ELSE << >>

\* lines 285-297
AssertionRoulette(func_node, assertions, no_msg) ==
    IF Len(assertions) > 3 /\ Len(no_msg) > 3
    THEN <<Smell("Assertion Roulette", func_node.lineno,
                 Message("{} assertions have no failure message", Len(no_msg),
                         0, << >>))>>
    ELSE << >>

\* lines 302-313: is_trivially_true or is_tautology
IsRedundant(test) ==
    \/ test.type = "Constant" /\ test.value = PyBool(TRUE)
    \/ /\ test.type = "Compare"
       /\ Len(test.ops) = 1
       /\ test.ops[1] = "Eq"
       /\ Len(test.children) = 2
       /\ test.children[1].type = "Constant"
       /\ test.children[2].type = "Constant"
       /\ PyEq(test.children[1].value, test.children[2].value)

\* lines 324-329: comparator.value in (True, False) of some comparator
ComparesWithBool(test) ==
    /\ test.type = "Compare"
    /\ \E i \in 2..Len(test.children) :
           /\ test.children[i].type = "Constant"
           /\ \/ PyEq(test.children[i].value, PyBool(TRUE))
              \/ PyEq(test.children[i].value, PyBool(FALSE))

\* lines 340-358
RECURSIVE DuplicateAsserts(_, _)
DuplicateAsserts(assertions, seen_assertions) ==
    IF assertions = << >> THEN << >>
    ELSE IF DictHas(seen_assertions, unparse(Head(assertions).children[1]))
    THEN <<Smell("Duplicate Assert", Head(assertions).lineno,
                 Message("Assertion '{}' duplicates line {}",
                         seen_assertions.at[unparse(Head(assertions).children[1])],
                         0, unparse(Head(assertions).children[1])))>>
             \o DuplicateAsserts(Tail(assertions), seen_assertions)
    ELSE DuplicateAsserts(Tail(assertions),
                          DictSet(seen_assertions,
                                  unparse(Head(assertions).children[1]),
                                  Head(assertions).lineno))

\* lines 364-369: the comparators that are numbers other than 0, 1, -1
MagicNumbers(test) ==
    IF test.type /= "Compare" THEN << >>
    ELSE SelectSeq(Tail(test.children),
                   LAMBDA comp : /\ comp.type = "Constant"
                                 /\ IsNumber(comp.value)
                                 /\ comp.value.n \notin {0, 1, 0 - 1})

\* lines 362-378; the message quotes the first such number
RECURSIVE MagicNumberTests(_)
MagicNumberTests(assertions) ==
    IF assertions = << >> THEN << >>
    ELSE (IF MagicNumbers(Head(assertions).children[1]) = << >> THEN << >>
          ELSE <<Smell("Magic Number Test", Head(assertions).lineno,
                       Message("Magic number {} in assertion", 0, 0,
                               Repr(MagicNumbers(
                                        Head(assertions).children[1])[1].value)))>>)
             \o MagicNumberTests(Tail(assertions))

\* min(a.lineno for a in assertions), 0 for None
FirstAssertLine(assertions) ==
    IF assertions = << >> THEN 0
    ELSE CHOOSE l \in { assertions[i].lineno : i \in 1..Len(assertions) } :
             \A i \in 1..Len(assertions) : l <= assertions[i].lineno

\* lines 388-391: the nodes the loop does not skip
BeforeLine(nodes, first_assert_line) ==
    SelectSeq(nodes, LAMBDA n : ~(first_assert_line /= 0 /\ n.lineno /= 0
                                    /\ n.lineno >= first_assert_line))

IsConstructorCall(node) ==
    /\ node.type = "Call"
    /\ node.children[1].type = "Name"
    /\ node.children[1].name /= << >>
    /\ node.children[1].name[1] \in UpperCase

\* lines 384-408 for the nodes the loop counts
ObscureSetup(func_node, before) ==
    IF \/ Len(OfType(before, {"Assign"})) >= 3
       \/ Len(SelectSeq(before, IsConstructorCall)) >= 2
    THEN <<Smell("Obscure In-Line Setup", func_node.lineno,
                 Message("Test body contains {} assignments and {} constructor calls before first assertion",
                         Len(OfType(before, {"Assign"})),
                         Len(SelectSeq(before, IsConstructorCall)), << >>))>>
    ELSE << >>

\* lines 434-438
IsGenericHandler(handler) ==
    \/ FieldOf(handler, "type") = << >>
    \/ /\ FieldOf(handler, "type")[1].type = "Name"
       /\ FieldOf(handler, "type")[1].name = <<"E", "x", "c", "e", "p", "t", "i", "o", "n">>

HasGenericHandler(node) ==
    /\ node.type = "Try"
    /\ \E i \in 1..Len(node.children) :
           node.fields[i] = "handlers" /\ IsGenericHandler(node.children[i])

IsSleepCall(node) ==
    /\ node.type = "Call"
    /\ node.children[1].type = "Attribute"
    /\ node.children[1].name = <<"s", "l", "e", "e", "p">>

IsPrintCall(node) ==
    /\ node.type = "Call"
    /\ node.children[1].type = "Name"
    /\ node.children[1].name = <<"p", "r", "i", "n", "t">>

\* lines 467-484
RedundantPrint(print_calls) ==
    IF print_calls = << >> THEN << >>
    ELSE <<Smell("Redundant Print", print_calls[1].lineno,
                 Message("Test contains {} print statement(s)", Len(print_calls),
                         0, << >>))>>

\* lines 282-486: the detectors after the empty-test checks, in their order
FunctionSmells(func_node, all_nodes, assertions) ==
    AssertionRoulette(func_node, assertions,
                      SelectSeq(assertions, LAMBDA a : Len(a.children) = 1))
        \o SmellEach(SelectSeq(assertions, LAMBDA a : IsRedundant(a.children[1])),
                     "Redundant Assertion",
                     Message("Assertion always passes", 0, 0, << >>))
        \o SmellEach(SelectSeq(assertions,
                               LAMBDA a : ComparesWithBool(a.children[1])),
                     "Suboptimal Assert",
                     Message("Comparing with True/False explicitly", 0, 0, << >>))
        \o DuplicateAsserts(assertions, DictEmpty)
        \o MagicNumberTests(assertions)
        \o ObscureSetup(func_node, BeforeLine(all_nodes, FirstAssertLine(assertions)))
        \o SmellFirst(OfType(all_nodes, {"If"}), "Conditional Test Logic",
                      Message("Test contains an if/else branch", 0, 0, << >>))
        \o SmellFirst(OfType(all_nodes, {"For", "While"}), "Conditional Test Logic",
                      Message("Test contains a loop (for/while)", 0, 0, << >>))
        \o SmellEach(SelectSeq(all_nodes, HasGenericHandler), "Exception Handling",
                     Message("Generic try/except in test", 0, 0, << >>))
        \o SmellFirst(SelectSeq(all_nodes, IsSleepCall), "Sleepy Test",
                      Message("Test uses time.sleep()", 0, 0, << >>))
        \o RedundantPrint(SelectSeq(all_nodes, IsPrintCall))

EmptyTestOfPass(func_node, body_nodes) ==
    IF body_nodes = << >> \/ (Len(body_nodes) = 1 /\ body_nodes[1].type = "Pass")
    THEN <<Smell("Empty Test", func_node.lineno,
                 Message("Test has no body or contains only 'pass'", 0, 0, << >>))>>
    ELSE << >>

\* lines 262-280: the empty-test checks on func_node.body; a message is kept
\* up to its dash
EmptyTest(func_node, body_nodes) ==
    IF body_nodes = << >> \/ (Len(body_nodes) = 1 /\ body_nodes[1].type = "Pass")
    THEN <<Smell("Empty Test", func_node.lineno,
                 Message("Test has no body or contains only 'pass'", 0, 0, << >>))>>
    ELSE IF /\ Len(body_nodes) = 1
            /\ body_nodes[1].type = "Expr"
            /\ body_nodes[1].children[1].type = "Constant"
    THEN <<Smell("Empty Test", func_node.lineno,
                 Message("Test contains only a docstring", 0, 0, << >>))>>
    ELSE << >>

\* _analyze_function_smells(func_node, lines); lines is not used
_analyze_function_smells(func_node) ==
    IF ~StartsWith(func_node.name, TestPrefix) THEN << >>
    ELSE IF EmptyTest(func_node, FieldOf(func_node, "body")) /= << >>
    THEN EmptyTest(func_node, FieldOf(func_node, "body"))
    ELSE FunctionSmells(func_node, walk(func_node),
                        OfType(walk(func_node), {"Assert"}))

RECURSIVE GeneralFixturesAboveSix(_)
GeneralFixturesAboveSix(setup_methods) ==
    IF setup_methods = << >> THEN << >>
    ELSE (IF Len(OfType(walk(Head(setup_methods)), {"Assign"})) > 6
          THEN <<Smell("General Fixture", Head(setup_methods).lineno,
                       Message("setUp() contains {} assignments",
                               Len(OfType(walk(Head(setup_methods)), {"Assign"})),
                               0, << >>))>>
          ELSE << >>)
             \o GeneralFixturesAboveSix(Tail(setup_methods))


\* lines 181-195: a smell for each setup method of more than 5 assignments
RECURSIVE GeneralFixtures(_)
GeneralFixtures(setup_methods) ==
    IF setup_methods = << >> THEN << >>
    ELSE (IF Len(OfType(walk(Head(setup_methods)), {"Assign"})) > 5
          THEN <<Smell("General Fixture", Head(setup_methods).lineno,
                       Message("setUp() contains {} assignments",
                               Len(OfType(walk(Head(setup_methods)), {"Assign"})),
                               0, << >>))>>
          ELSE << >>)
             \o GeneralFixtures(Tail(setup_methods))

SetupNames ==
    { <<"s", "e", "t", "U", "p">>, <<"s", "e", "t", "u", "p">>,
      <<"s", "e", "t", "u", "p", "_", "m", "e", "t", "h", "o", "d">>,
      <<"s", "e", "t", "U", "p", "C", "l", "a", "s", "s">> }

\* lines 211-217: the attributes of self a method names
SelfAttributes(method) ==
    { n.name : n \in { m \in Range(walk(method)) :
                         /\ m.type = "Attribute"
                         /\ m.children[1].type = "Name"
                         /\ m.children[1].name = <<"s", "e", "l", "f">> } }

\* lines 208-229
LackOfCohesion(class_node, test_methods) ==
    IF /\ Len(test_methods) > 1
       /\ \A i \in 1..Len(test_methods) : SelfAttributes(test_methods[i]) /= {}
       /\ ~ \E a \in SelfAttributes(test_methods[1]) :
                \A i \in 1..Len(test_methods) : a \in SelfAttributes(test_methods[i])
    THEN <<Smell("Lack of Cohesion of Test Cases", class_node.lineno,
                 Message("Test methods share no common self.* attributes", 0, 0,
                         << >>))>>
    ELSE << >>

\* lines 168-231 for the methods of the class
ClassSmells(class_node, all_methods) ==
    (IF \E i \in 1..Len(all_methods) :
            all_methods[i].name = <<"_", "_", "i", "n", "i", "t", "_", "_">>
     THEN <<Smell("Constructor Initialization", class_node.lineno,
                  Message("__init__ used in test class instead of setUp()", 0, 0,
                          << >>))>>
     ELSE << >>)
        \o GeneralFixtures(SelectSeq(all_methods, LAMBDA m : m.name \in SetupNames))
        \o (IF Len(SelectSeq(all_methods,
                             LAMBDA m : StartsWith(m.name, TestPrefix))) = 1
            THEN <<Smell("Test Maverick", class_node.lineno,
                         Message("Test class contains only one test method", 0, 0,
                                 << >>))>>
            ELSE << >>)
        \o LackOfCohesion(class_node,
                          SelectSeq(all_methods,
                                    LAMBDA m : StartsWith(m.name, TestPrefix)))

_analyze_class_smells(class_node) ==
    ClassSmells(class_node, OfType(FieldOf(class_node, "body"), {"FunctionDef"}))

\* smells.extend(...) for each node of the list
RECURSIVE ClassSmellsOf(_)
ClassSmellsOf(class_nodes) ==
    IF class_nodes = << >> THEN << >>
    ELSE _analyze_class_smells(Head(class_nodes)) \o ClassSmellsOf(Tail(class_nodes))

RECURSIVE FunctionSmellsOf(_)
FunctionSmellsOf(function_nodes) ==
    IF function_nodes = << >> THEN << >>
    ELSE _analyze_function_smells(Head(function_nodes))
             \o FunctionSmellsOf(Tail(function_nodes))

\* lines 138-145 for a parsed tree
SmellsOfTree(tree) ==
    ClassSmellsOf(OfType(walk(tree), {"ClassDef"}))
        \o FunctionSmellsOf(OfType(walk(tree), {"FunctionDef"}))

\* detect_all_smells(test_file): a file that cannot be read or parsed gives
\* no smells
detect_all_smells(file) ==
    IF Parse(file.source).raised THEN << >>
    ELSE SmellsOfTree(Parse(file.source).tree)

\* lines 63-78: the instances of the files, in order
RECURSIVE InstancesOf(_)
InstancesOf(test_files) ==
    IF test_files = << >> THEN << >>
    ELSE LET file        == Head(test_files)
             file_smells == detect_all_smells(file)
         IN  [ i \in 1..Len(file_smells) |->
                 [ type |-> file_smells[i].type, line |-> file_smells[i].line,
                   message |-> file_smells[i].message, file |-> file.path ] ]
                 \o InstancesOf(Tail(test_files))

DetailsOfSmelly(test_files) ==
    [ i \in 1..Len(SelectSeq(test_files, LAMBDA f : detect_all_smells(f) /= << >>)) |->
        [ file        |-> SelectSeq(test_files, LAMBDA f : detect_all_smells(f) /= << >>)[i].path,
          smells      |-> detect_all_smells(
                              SelectSeq(test_files, LAMBDA f : detect_all_smells(f) /= << >>)[i]),
          smell_count |-> Len(detect_all_smells(
                              SelectSeq(test_files, LAMBDA f : detect_all_smells(f) /= << >>)[i])) ] ]


DetailsOf(test_files) ==
    [ i \in 1..Len(test_files) |->
        [ file        |-> test_files[i].path,
          smells      |-> detect_all_smells(test_files[i]),
          smell_count |-> Len(detect_all_smells(test_files[i])) ] ]

NoteWithGit ==
    <<"No test smells were detected, so git-based prioritization ",
      "was not performed.">>

NoteWithoutGit ==
    <<"The project does not include git history to prioritize the smells. ",
      "Upload a project that contains a .git folder (with commit history) ",
      "to enable CP, FP, and PS prioritization scores.">>

\* lines 84-94: the outcome of the call, the handler present or not
Handle(r, handled) ==
    IF r.raised /\ handled
    THEN [ raised |-> FALSE, exc |-> "",
           value  |-> ErrorResult(
               <<"Git metrics could not be computed. ", "Reason: ", r.exc>>) ]
    ELSE r

\* lines 82-111
GitAnalysis(project, all_smell_instances, cp_weight, handled) ==
    IF all_smell_instances /= << >>
    THEN Handle(Apply_analyze_project_with_git(
                    <<project, all_smell_instances, cp_weight>>), handled)
    ELSE [ raised |-> FALSE, exc |-> "",
           value  |-> [ NoGitResult EXCEPT
                          !.keys = {"error", "metrics", "statistics", "note"},
                          !.null = {"error", "statistics"},
                          !.note = IF project.repo.dotgit
                                   THEN NoteWithGit ELSE NoteWithoutGit ] ]

\* lines 113-118, or the exception that leaves the function
DetectResult(test_files, git_analysis, null) ==
    IF git_analysis.raised
    THEN [ raised |-> TRUE, exc |-> git_analysis.exc,
           value  |-> [ total_files |-> 0, total_smells |-> 0, details |-> << >>,
                        git_metrics |-> NoGitResult, null |-> {} ] ]
    ELSE [ raised |-> FALSE, exc |-> "",
           value  |-> [ total_files  |-> Len(test_files),
                        total_smells |-> Len(InstancesOf(test_files)),
                        details      |-> DetailsOf(test_files),
                        git_metrics  |-> git_analysis.value,
                        null         |-> null ] ]

\* lines 51-118
DetectFiles(project, test_files, include_git_metrics, cp_weight, handled) ==
    IF test_files = << >>
    THEN [ raised |-> FALSE, exc |-> "",
           value  |-> [ total_files |-> 0, total_smells |-> 0, details |-> << >>,
                        git_metrics |-> NoGitResult, null |-> {"git_metrics"} ] ]
    ELSE IF ~include_git_metrics
    THEN DetectResult(test_files,
                      [raised |-> FALSE, exc |-> "", value |-> NoGitResult],
                      {"git_metrics"})
    ELSE DetectResult(test_files,
                      GitAnalysis(project, InstancesOf(test_files), cp_weight,
                                  handled),
                      {})

DetectWith(project, include_git_metrics, cp_weight, handled) ==
    DetectFiles(project,
                SelectSeq(project.disk, FitsTestPrefix)
                    \o SelectSeq(project.disk, FitsTestSuffix),
                include_git_metrics, cp_weight, handled)

\* detect_smells_for_project without the try/except around the call
DetectNoHandler(project, include_git_metrics, cp_weight) ==
    DetectWith(project, include_git_metrics, cp_weight, FALSE)

\* detect_smells_for_project(project_path, include_git_metrics, cp_weight)
detect_smells_for_project(project, include_git_metrics, cp_weight) ==
    DetectWith(project, include_git_metrics, cp_weight, TRUE)

(***************************************************************************)
(* The inputs: paths, log lines, commits                                   *)
(***************************************************************************)

MaxLogLines == 3
MaxCommits == 3
MaxFragments == 2

TestA == <<"t", "e", "s", "t", "s", "/", "t", "e", "s", "t", "_", "a", ".", "p", "y">>
TestB == <<"t", "e", "s", "t", "_", "b", ".", "p", "y">>
ProdA == <<"s", "r", "c", "/", "a", ".", "p", "y">>
ProdB == <<"b", ".", "p", "y">>
Readme == <<"R", "E", "A", "D", "M", "E">>

HeaderLine(hash, tail) ==
    [kind |-> "header", hash |-> hash, tail |-> tail, parts |-> << >>]

TabbedLine(parts) ==
    [kind |-> "tabbed", hash |-> "", tail |-> << >>, parts |-> parts]

PlainLine == [kind |-> "plain", hash |-> "", tail |-> << >>, parts |-> << >>]

DateText == <<"D">>

\* the subjects of the commits of the bounded histories
Subjects == { <<"F", "i", "x", " ", "a">>, <<"a", "d", "d", " ", "b">>, <<"D", "e", "b", "u", "g", "|", "x">> }

TabbedParts ==
    { <<"1">> } \X { <<"2">>, <<"-">>, <<"x">> } \X { TestA, ProdA }
        \cup { <<"-">>, <<"x">>, <<"1", "0">> } \X { <<"0">> } \X { TestA, ProdA }
        \cup { << <<"1">>, TestA >> }

\* a fault-fixing and an ordinary subject
MetricsSubjects == { <<"F", "i", "x", " ", "a">>, <<"a", "d", "d", " ", "b">> }

\* the pieces commit subjects are typed from
Fragments ==
    { <<"b", "u", "g">>,
      <<"F", "I", "X">>,
      <<"E", "r", "r", "o", "r">>,
      <<"d", "e", "f", "e", "c", "t">>,
      <<"I", "S", "S", "U", "E">>,
      <<"f", "a", "u", "l", "t">>,
      <<"C", "r", "a", "s", "h">>,
      <<"p", "a", "t", "c", "h">>,
      <<"r", "e", "P", "A", "I", "R">>,
      <<"c", "o", "r", "r", "e", "c", "t">>,
      <<"r", "e", "s", "o", "l", "v", "e">>,
      <<"f", "i">>,
      <<"x">>,
      <<"X">>,
      <<" ">>,
      <<"|">>,
      <<"d", "e">>,
      <<"F", "E", "C", "T">>,
      <<"a">> }

\* the numstat lines git prints for one commit: changes is a sequence of
\* <<add_str, del_str, filename>>
RECURSIVE NumstatLines(_)
NumstatLines(changes) ==
    IF changes = << >> THEN << >>
    ELSE <<TabbedLine(Head(changes))>> \o NumstatLines(Tail(changes))

\* the file sets and line counts of the commits of the bounded histories
ChangeSets ==
    { << <<<<"1">>, <<"2">>, TestA>> >>,
      << <<<<"3">>, <<"0">>, TestA>>, <<<<"2">>, <<"2">>, ProdA>> >>,
      << <<<<"-">>, <<"-">>, ProdA>> >>,
      << <<<<"0">>, <<"1">>, ProdA>>, <<<<"-">>, <<"-">>, TestA>> >>,
      << <<<<"1">>, <<"0">>, Readme>>, <<<<"1">>, <<"1">>, TestB>> >> }

CommitCount(log) == Cardinality({ i \in 1..Len(log) : log[i].kind = "header" })

\* git commit: git log prints the newest commit first
GitCommitFrom(bound, subjects, changeSets) ==
    /\ pc = "setup"
    /\ repo.git \in {"ok", "logfail"}
    /\ CommitCount(repo.log) < bound
    /\ \E subject \in subjects, changes \in changeSets :
           repo' = [repo EXCEPT
                      !.git = "ok",
                      !.log = <<HeaderLine("h", subject \o <<"|">> \o DateText)>>
                                  \o NumstatLines(changes) \o @]
    /\ UNCHANGED <<pc, disk, call, ret>>

GitCommit(bound, subjects) == GitCommitFrom(bound, subjects, ChangeSets)

NoCall == [op |-> "none"]
NoRet == [raised |-> FALSE]

(***************************************************************************)
(* SpecHistory: git log output of any shape, then extract_git_history      *)
(***************************************************************************)

InitHistory ==
    /\ pc = "setup"
    /\ repo \in [git : {"ok", "notrepo", "logfail", "timeout"},
                 dotgit : {TRUE}, log : {<< >>}]
    /\ disk = << >>
    /\ call = NoCall
    /\ ret = NoRet

AppendHeader ==
    /\ pc = "setup" /\ repo.git = "ok" /\ Len(repo.log) < MaxLogLines
    /\ \E subject \in Subjects :
           repo' = [repo EXCEPT !.log =
                       Append(@, HeaderLine("h", subject \o <<"|">> \o DateText))]
    /\ UNCHANGED <<pc, disk, call, ret>>

AppendTabbed ==
    /\ pc = "setup" /\ repo.git = "ok" /\ Len(repo.log) < MaxLogLines
    /\ \E parts \in TabbedParts :
           repo' = [repo EXCEPT !.log = Append(@, TabbedLine(parts))]
    /\ UNCHANGED <<pc, disk, call, ret>>

AppendPlain ==
    /\ pc = "setup" /\ repo.git = "ok" /\ Len(repo.log) < MaxLogLines
    /\ repo' = [repo EXCEPT !.log = Append(@, PlainLine)]
    /\ UNCHANGED <<pc, disk, call, ret>>

CallExtract ==
    /\ pc = "setup"
    /\ pc' = "done"
    /\ call' = [op |-> "extract_git_history"]
    /\ ret' = extract_git_history(repo)
    /\ UNCHANGED <<repo, disk>>

NextHistory == AppendHeader \/ AppendTabbed \/ AppendPlain \/ CallExtract

SpecHistory == InitHistory /\ [][NextHistory]_vars

(***************************************************************************)
(* SpecMetrics: whole commits, then _build_file_metrics over the history   *)
(***************************************************************************)

InitMetrics ==
    /\ pc = "setup"
    /\ repo = [git |-> "logfail", dotgit |-> TRUE, log |-> << >>]
    /\ disk = << >>
    /\ call = NoCall
    /\ ret = NoRet

CommitMetrics == GitCommit(MaxCommits, MetricsSubjects)

CallBuild ==
    /\ pc = "setup"
    /\ pc' = "done"
    /\ LET commits == extract_git_history(repo).value
       IN  /\ call' = [op |-> "_build_file_metrics", commits |-> commits]
           /\ ret' = [raised |-> FALSE, value |-> _build_file_metrics(commits)]
    /\ UNCHANGED <<repo, disk>>

NextMetrics == CommitMetrics \/ CallBuild

SpecMetrics == InitMetrics /\ [][NextMetrics]_vars

(***************************************************************************)
(* SpecClassify: a commit subject typed piece by piece, committed, mined   *)
(***************************************************************************)

InitClassify ==
    /\ pc = "setup"
    /\ repo = [git |-> "logfail", dotgit |-> TRUE, log |-> << >>]
    /\ disk = << >>
    /\ call = [op |-> "typing", pieces |-> 0, subject |-> << >>]
    /\ ret = NoRet

TypeFragment ==
    /\ pc = "setup" /\ call.pieces < MaxFragments
    /\ \E f \in Fragments :
           call' = [call EXCEPT !.pieces = @ + 1, !.subject = @ \o f]
    /\ UNCHANGED <<pc, repo, disk, ret>>

CommitAndExtract ==
    /\ pc = "setup"
    /\ pc' = "done"
    /\ LET r == [repo EXCEPT
                   !.git = "ok",
                   !.log = << HeaderLine("h", call.subject \o <<"|">> \o DateText),
                              TabbedLine(<< <<"1">>, <<"1">>, TestA >>) >>]
       IN  /\ repo' = r
           /\ ret' = extract_git_history(r)
    /\ UNCHANGED <<disk, call>>

NextClassify == TypeFragment \/ CommitAndExtract

SpecClassify == InitClassify /\ [][NextClassify]_vars

(***************************************************************************)
(* Spec: a project is set up (commits, test files on disk), then analysed  *)
(* through detect_smells_for_project or analyze_project_with_git           *)
(***************************************************************************)

MaxRepoCommits == 2
MaxDiskFiles == 2

SuffixTest == <<"b", "_", "t", "e", "s", "t", ".", "p", "y">>

\* the file sets and line counts of the commits of the projects
RepoChangeSets ==
    { << <<<<"1">>, <<"2">>, TestA>> >>,
      << <<<<"2">>, <<"2">>, ProdA>> >>,
      << <<<<"3">>, <<"0">>, TestA>>, <<<<"2">>, <<"2">>, ProdA>> >>,
      << <<<<"1">>, <<"1">>, TestA>>, <<<<"1">>, <<"1">>, TestB>>,
         <<<<"1">>, <<"1">>, ProdA>> >>,
      << <<<<"0">>, <<"1">>, TestB>>, <<<<"1">>, <<"0">>, ProdB>> >> }

\* test_a: four assertions without a message, each of its own expression
FourAsserts ==
    << AssertStmt(Name(<<"a">>)), AssertStmt(Name(<<"b">>)),
       AssertStmt(Name(<<"c">>)), AssertStmt(Name(<<"d">>)) >>

\* a test with one assertion and its message
CleanSource ==
    Module(<< FunctionDef(TestPrefix \o <<"a">>,
                          << AssertMsgStmt(Name(<<"a">>),
                                           Constant(PyStr(<<"m">>))) >>) >>)

\* a test with four bare assertions
RouletteSource == Module(<< FunctionDef(TestPrefix \o <<"a">>, FourAsserts) >>)

\* that test with a branch before the assertions
BranchSource ==
    Module(<< FunctionDef(TestPrefix \o <<"a">>,
                          << Block("If", Name(<<"c">>), <<PassStmt>>) >>
                              \o FourAsserts) >>)

\* the sources of the test files written to disk
Sources == {CleanSource, RouletteSource, BranchSource}

\* the files written to disk: a path and the source it holds
DiskFiles ==
    [path : {TestA, SuffixTest}, source : Sources]
        \cup [path : {ProdA}, source : {Module(<< >>)}]

\* (include_git_metrics, cp_weight in tenths) of the calls
DetectArguments == { <<TRUE, 5>>, <<TRUE, 3>>, <<FALSE, 5>> }

Project == [repo |-> repo, disk |-> disk]

Init ==
    /\ pc = "setup"
    /\ repo = [git |-> "logfail", dotgit |-> TRUE, log |-> << >>]
    /\ disk = << >>
    /\ call = NoCall
    /\ ret = NoRet

CommitRepo == GitCommitFrom(MaxRepoCommits, MetricsSubjects, RepoChangeSets)

\* the project is uploaded without its .git folder
RemoveGit ==
    /\ pc = "setup"
    /\ repo.dotgit
    /\ repo' = [git |-> "notrepo", dotgit |-> FALSE, log |-> << >>]
    /\ UNCHANGED <<pc, disk, call, ret>>

WriteFile ==
    /\ pc = "setup"
    /\ Len(disk) < MaxDiskFiles
    /\ \E file \in DiskFiles :
           /\ \A i \in 1..Len(disk) : disk[i].path /= file.path
           /\ disk' = Append(disk, file)
    /\ UNCHANGED <<pc, repo, call, ret>>

CallDetect ==
    /\ pc = "setup"
    /\ pc' = "done"
    /\ \E a \in DetectArguments :
           /\ call' = [op |-> "detect_smells_for_project",
                       include_git_metrics |-> a[1], cp_weight |-> a[2]]
           /\ ret' = detect_smells_for_project(Project, a[1], a[2])
    /\ UNCHANGED <<repo, disk>>

\* test_git_metrics.py: analyze_project_with_git called with the instances
CallAnalyze ==
    /\ pc = "setup"
    /\ pc' = "done"
    /\ call' = [op |-> "analyze_project_with_git",
                include_git_metrics |-> TRUE, cp_weight |-> 5]
    /\ ret' = [raised |-> FALSE, exc |-> "",
               value  |-> analyze_project_with_git(
                              Project,
                              InstancesOf(SelectSeq(disk, FitsTestPrefix)
                                              \o SelectSeq(disk, FitsTestSuffix)))]
    /\ UNCHANGED <<repo, disk>>

Next == CommitRepo \/ RemoveGit \/ WriteFile \/ CallDetect \/ CallAnalyze

Spec == Init /\ [][Next]_vars

(***************************************************************************)
(* SpecSpearman: a population is built file by file (smell present or not, *)
(* the file's share of the changes), then _spearman correlates the columns *)
(***************************************************************************)

MaxPopulation == 3

\* (prod_total, test_total) of the populations
Totals == { <<1, 1>>, <<2, 3>> }

InitSpearman ==
    /\ pc = "setup"
    /\ repo = [git |-> "logfail", dotgit |-> TRUE, log |-> << >>]
    /\ disk = << >>
    /\ \E t \in Totals :
           call = [op |-> "_spearman", prod_total |-> t[1], test_total |-> t[2],
                   x |-> << >>, y |-> << >>]
    /\ ret = NoRet

AddToPopulation ==
    /\ pc = "setup"
    /\ Len(call.x) < MaxPopulation
    /\ \E present \in {FZero, FOne}, prod_changes \in 0..1, test_changes \in 0..1 :
           call' = [call EXCEPT
                      !.x = Append(@, present),
                      !.y = Append(@, FAdd(FRatio(prod_changes, call.prod_total),
                                           FRatio(test_changes, call.test_total)))]
    /\ UNCHANGED <<pc, repo, disk, ret>>

CallSpearman ==
    /\ pc = "setup"
    /\ pc' = "done"
    /\ ret' = [raised |-> FALSE, value |-> _spearman(call.x, call.y)]
    /\ UNCHANGED <<repo, disk, call>>

NextSpearman == AddToPopulation \/ CallSpearman

SpecSpearman == InitSpearman /\ [][NextSpearman]_vars

(***************************************************************************)
(* SpecScore: four correlations and a weight are chosen, then the scores   *)
(* of lines 385-410 are computed                                           *)
(***************************************************************************)

\* coefficients in units: the ends, values at and about a rounding tie
RhoValues ==
    { Dec(0), Dec(Unit), Dec(0 - Unit), Dec(50000000), Dec(0 - 86602540),
      Dec(33335000), Dec(1234999), Dec(0 - 5000), DecNaN }

\* cp_weight in tenths
Weights == {0, 3, 5, 10}

InitScore ==
    /\ pc = "setup"
    /\ repo = [git |-> "logfail", dotgit |-> TRUE, log |-> << >>]
    /\ disk = << >>
    /\ call = [op |-> "scores", cp_weight |-> 5, rhos |-> << >>]
    /\ ret = NoRet

ChooseWeight ==
    /\ pc = "setup"
    /\ call.rhos = << >>
    /\ \E w \in Weights \ {call.cp_weight} : call' = [call EXCEPT !.cp_weight = w]
    /\ UNCHANGED <<pc, repo, disk, ret>>

ChooseRho ==
    /\ pc = "setup"
    /\ Len(call.rhos) < 4
    /\ \E rho \in RhoValues :
           call' = [call EXCEPT !.rhos = Append(@,
                       [rho |-> rho,
                        p   |-> IF rho.nan THEN "nan"
                                ELSE IF rho.v = 0 THEN "one"
                                ELSE IF rho.v \in {Unit, 0 - Unit} THEN "zero"
                                ELSE IF rho.v < 0 THEN "below" ELSE "above"])]
    /\ UNCHANGED <<pc, repo, disk, ret>>

CallScores ==
    /\ pc = "setup"
    /\ Len(call.rhos) = 4
    /\ pc' = "done"
    /\ ret' = [raised |-> FALSE,
               value  |-> Scores(call.rhos)]
    /\ UNCHANGED <<repo, disk, call>>

NextScore == ChooseWeight \/ ChooseRho \/ CallScores

SpecScore == InitScore /\ [][NextScore]_vars

(***************************************************************************)
(* Claims C1-C4: what a caller gets back for a project                     *)
(***************************************************************************)

DetectDone == pc = "done" /\ call.op = "detect_smells_for_project"

AnalyzeDone == pc = "done" /\ call.op = "analyze_project_with_git"

\* the test files of the project and what static analysis finds in them
TestFilesOf(d) == { i \in 1..Len(d) : FitsTestPrefix(d[i]) \/ FitsTestSuffix(d[i]) }

SmellsOf(d) ==
    UNION { { <<d[i].path, s>> : s \in Range(detect_all_smells(d[i])) } :
            i \in TestFilesOf(d) }

TypesOf(d) == { s[2].type : s \in SmellsOf(d) }

\* the commits of the history and the changes to files of one class
CommitsOf(r) == IF r.git = "ok" THEN CommitCount(r.log) ELSE 0

ChangedPaths(r) ==
    IF r.git /= "ok" THEN << >>
    ELSE LET lines == SelectSeq(r.log, LAMBDA l : l.kind = "tabbed")
         IN  [i \in 1..Len(lines) |-> lines[i].parts[3]]

ZeroDenominator(r) ==
    \/ SelectSeq(ChangedPaths(r), is_production_file) = << >>
    \/ SelectSeq(ChangedPaths(r), is_test_file) = << >>

\* the explanatory text of a result: its note, or else its error
NoteOf(gm) ==
    IF "note" \in gm.keys \ gm.null THEN gm.note
    ELSE IF "error" \in gm.keys \ gm.null THEN gm.error
    ELSE << >>

HasError(gm) == "error" \in gm.keys \ gm.null

\* C1: for a project with at least one detected smell instance and at least
\* one commit, detect_smells_for_project (git metrics included, any
\* cp_weight) returns git_metrics without an error, with one record per
\* detected smell type and a ranked list over exactly those types.
C1_RankingForSmellsAndHistory ==
    (DetectDone /\ call.include_git_metrics
         /\ SmellsOf(disk) /= {} /\ CommitsOf(repo) >= 1)
    => /\ ~ret.raised
       /\ "git_metrics" \notin ret.value.null
       /\ ~HasError(ret.value.git_metrics)
       /\ Range(ret.value.git_metrics.metrics.keys) = TypesOf(disk)
       /\ Len(ret.value.git_metrics.ranked_smells) = Cardinality(TypesOf(disk))
       /\ { e.smell_type : e \in Range(ret.value.git_metrics.ranked_smells) }
              = TypesOf(disk)

C3_ZeroDenominatorStops ==
    ((DetectDone \/ AnalyzeDone) /\ call.include_git_metrics
         /\ CommitsOf(repo) >= 1 /\ ZeroDenominator(repo)
         /\ TestFilesOf(disk) /= {})
    => LET gm == IF DetectDone THEN ret.value.git_metrics ELSE ret.value
       IN  /\ ~ret.raised
           /\ HasError(gm) \/ "note" \in gm.keys
           /\ gm.ranked_smells = << >>
           /\ gm.metrics.keys = << >>

\* the four kinds of project the claim sets against each other
KindOf(project) ==
    IF SmellsOf(project.disk) = {}
    THEN IF CommitsOf(project.repo) >= 1 /\ ~ZeroDenominator(project.repo)
              /\ TestFilesOf(project.disk) /= {}
         THEN "no smells" ELSE "other"
    ELSE IF CommitsOf(project.repo) = 0 THEN "no history"
    ELSE IF ZeroDenominator(project.repo) THEN "zero denominator"
    ELSE "success"

\* one project of every kind
SmellyDisk == << [path |-> TestA, source |-> RouletteSource] >>

CleanDisk == << [path |-> TestA, source |-> CleanSource] >>

EmptyRepo == [git |-> "logfail", dotgit |-> TRUE, log |-> << >>]

TestOnlyRepo ==
    [ git |-> "ok", dotgit |-> TRUE,
      log |-> << HeaderLine("h", <<"a", "d", "d", " ", "b", "|">> \o DateText),
                 TabbedLine(<< <<"1">>, <<"2">>, TestA >>) >> ]

UsableRepo ==
    [ git |-> "ok", dotgit |-> TRUE,
      log |-> << HeaderLine("h", <<"a", "d", "d", " ", "b", "|">> \o DateText),
                 TabbedLine(<< <<"3">>, <<"0">>, TestA >>),
                 TabbedLine(<< <<"2">>, <<"2">>, ProdA >>) >> ]

Examples ==
    { [repo |-> EmptyRepo, disk |-> SmellyDisk],
      [repo |-> UsableRepo, disk |-> CleanDisk],
      [repo |-> TestOnlyRepo, disk |-> SmellyDisk],
      [repo |-> UsableRepo, disk |-> SmellyDisk] }

\* C4: the results for (1) no history, (2) history but no smells and
\* (5) history with zero production or zero test changes differ from one
\* another and from a successful result: the git_metrics of a project of
\* one of the three kinds is never the git_metrics of a project of another
\* kind.
C4_ConditionsTellApart ==
    (DetectDone /\ call.include_git_metrics
         /\ KindOf(Project) \in {"no history", "no smells", "zero denominator"})
    => \A other \in Examples :
           KindOf(other) /= KindOf(Project)
           => detect_smells_for_project(other, TRUE, call.cp_weight)
                  .value.git_metrics /= ret.value.git_metrics

(***************************************************************************)
(* Claims C5-C8: history mining and file metrics                           *)
(***************************************************************************)

Headers(log) == { i \in 1..Len(log) : log[i].kind = "header" }

\* the header line that owns line i of the log (0: none)
OwnerOf(log, i) ==
    LET before == { h \in Headers(log) : h < i }
    IN  IF before = {} THEN 0
        ELSE CHOOSE h \in before : \A g \in before : g <= h

IsCountText(field) ==
    field = <<"-">> \/ (field /= << >> /\ \A k \in 1..Len(field) : field[k] \in Digits)

\* a three-field numstat line of some commit whose count is not a number
BadCountLine(log, i) ==
    /\ log[i].kind = "tabbed"
    /\ Len(log[i].parts) = 3
    /\ OwnerOf(log, i) /= 0
    /\ ~ IsCountText(log[i].parts[1]) \/ ~ IsCountText(log[i].parts[2])

\* C5: extract_git_history never raises; it returns the empty list when the
\* directory is no repository, when git log fails or times out, when a
\* numstat count cannot be parsed, and when the history holds no commit.
C5_ExtractNeverRaises ==
    (pc = "done" /\ call.op = "extract_git_history") =>
        /\ ~ ret.raised
        /\ (repo.git /= "ok" => ret.value = << >>)
        /\ ((\E i \in 1..Len(repo.log) : BadCountLine(repo.log, i))
                => ret.value = << >>)
        /\ (Headers(repo.log) = {} => ret.value = << >>)

\* a commit with a good numstat line was parsed before the bad line was met
C5_Witness ==
    /\ pc = "done" /\ call.op = "extract_git_history"
    /\ Len(repo.log) = 3
    /\ repo.log[1].kind = "header"
    /\ repo.log[2].kind = "tabbed" /\ ~ BadCountLine(repo.log, 2)
    /\ Len(repo.log[2].parts) = 3
    /\ BadCountLine(repo.log, 3)
    /\ ret.value = << >>

ClaimKeywords ==
    { <<"b", "u", "g">>,
      <<"f", "i", "x">>,
      <<"e", "r", "r", "o", "r">>,
      <<"d", "e", "f", "e", "c", "t">>,
      <<"i", "s", "s", "u", "e">>,
      <<"f", "a", "u", "l", "t">>,
      <<"c", "r", "a", "s", "h">>,
      <<"p", "a", "t", "c", "h">>,
      <<"r", "e", "p", "a", "i", "r">>,
      <<"c", "o", "r", "r", "e", "c", "t">>,
      <<"r", "e", "s", "o", "l", "v", "e">> }

LowerCase == { Ascii[i] : i \in 37..62 }

UpperOf(c) == IF c \in LowerCase THEN Ascii[Ord(c) - 28] ELSE c

\* kw occurs in msg at position i, each letter in either case
OccursAt(msg, kw, i) ==
    /\ i + Len(kw) - 1 <= Len(msg)
    /\ \A j \in 1..Len(kw) : msg[i + j - 1] \in {kw[j], UpperOf(kw[j])}

HasKeyword(msg) ==
    \E kw \in ClaimKeywords : \E i \in 1..Len(msg) : OccursAt(msg, kw, i)

\* C6: a mined commit is fault-fixing exactly when its message holds one of
\* the eleven keywords as a substring, in any letter case.
C6_FaultyIffKeyword ==
    (pc = "done" /\ call.op = "typing") =>
        \A i \in 1..Len(ret.value) :
            ret.value[i].is_faulty = HasKeyword(ret.value[i].message)

\* a keyword typed in two pieces and in mixed case is recognised
C6_Witness ==
    /\ pc = "done" /\ call.op = "typing"
    /\ Len(ret.value) = 1
    /\ ret.value[1].message = <<"d", "e", "F", "E", "C", "T">>
    /\ ret.value[1].is_faulty

PermuteSeq(q, p) == [i \in 1..Len(q) |-> q[p[i]]]

\* C7: _build_file_metrics gives the same metrics for every permutation of
\* the commit list.
C7_OrderIndependent ==
    (pc = "done" /\ call.op = "_build_file_metrics") =>
        \A p \in Permutations(1..Len(call.commits)) :
            _build_file_metrics(PermuteSeq(call.commits, p)).at = ret.value.at

\* three commits, a file touched by more than one of them, fault-fixing and
\* ordinary commits mixed
C7_Witness ==
    /\ pc = "done" /\ call.op = "_build_file_metrics"
    /\ Len(call.commits) = 3
    /\ call.commits[1].is_faulty /= call.commits[3].is_faulty
    /\ call.commits[1].files_changed /= call.commits[3].files_changed
    /\ \E f \in DOMAIN ret.value.at :
           ret.value.at[f].total_changes = 3 /\ ret.value.at[f].faulty_changes = 1

\* the numstat lines of the log that name file f
LinesOf(log, f) ==
    { i \in 1..Len(log) :
        /\ log[i].kind = "tabbed" /\ Len(log[i].parts) = 3
        /\ OwnerOf(log, i) /= 0
        /\ log[i].parts[3] = f }

\* the lines a numstat field counts: none for the "-" of a binary file
CountOf(field) == IF field = <<"-">> THEN 0 ELSE DigitsValue(field)

RECURSIVE ChurnOfLines(_, _)
ChurnOfLines(log, S) ==
    IF S = {} THEN 0
    ELSE LET i == CHOOSE x \in S : TRUE
         IN  CountOf(log[i].parts[1]) + CountOf(log[i].parts[2])
                 + ChurnOfLines(log, S \ {i})

\* the subject of the commit that owns line i holds a fault keyword
FaultLine(log, i) == HasKeyword(SplitHeader(log[OwnerOf(log, i)])[2])

\* C8: per file, total_changes counts the commits touching it, total_churn
\* sums their additions+deletions (a binary diff counts 0), faulty_changes
\* and faulty_churn are the same over the fault-fixing commits only.
C8_MetricsAreSums ==
    (pc = "done" /\ call.op = "_build_file_metrics") =>
        /\ DOMAIN ret.value.at =
               { repo.log[i].parts[3] :
                   i \in { j \in 1..Len(repo.log) : repo.log[j].kind = "tabbed" } }
        /\ \A f \in DOMAIN ret.value.at :
               LET all    == LinesOf(repo.log, f)
                   faulty == { i \in all : FaultLine(repo.log, i) }
                   m      == ret.value.at[f]
               IN  /\ m.total_changes = Cardinality(all)
                   /\ m.total_churn = ChurnOfLines(repo.log, all)
                   /\ m.faulty_changes = Cardinality(faulty)
                   /\ m.faulty_churn = ChurnOfLines(repo.log, faulty)
                   /\ m.faulty_changes <= m.total_changes
                   /\ m.faulty_churn <= m.total_churn

\* a file with a binary diff and a counted diff, in a fault-fixing and in an
\* ordinary commit
C8_Witness ==
    /\ pc = "done" /\ call.op = "_build_file_metrics"
    /\ \E f \in DOMAIN ret.value.at :
           /\ \E i \in LinesOf(repo.log, f) : repo.log[i].parts[1] = <<"-">>
           /\ ret.value.at[f].total_changes >= 2
           /\ ret.value.at[f].faulty_changes = 1
           /\ ret.value.at[f].faulty_churn > 0
           /\ ret.value.at[f].faulty_churn < ret.value.at[f].total_churn

(***************************************************************************)
(* Claims C9-C10: degenerate correlations and the prioritization score     *)
(***************************************************************************)

\* every element of the vector is the same number
IsConstant(x) == \A i, j \in 1..Len(x) : FEq(x[i], x[j])

ZeroOne == [rho |-> Dec(0), p |-> "one"]

\* C9: _spearman returns exactly (0.0, 1.0), raising nothing, whenever a
\* vector is constant or the population has fewer than 3 files; so a smell
\* type present in every file or in none gets CP = FP = PS = 0 and no
\* significance flag.
C9_DegenerateGivesZeroOne ==
    (pc = "done" /\ call.op = "_spearman")
    => /\ (IsConstant(call.x) \/ IsConstant(call.y) \/ Len(call.x) < 3)
              => ~ret.raised /\ ret.value = ZeroOne
       /\ IsConstant(call.x)
              => LET record == Scores(<<ret.value, ret.value, ret.value, ret.value>>)
                 IN  /\ record.cp_score = Dec(0)
                     /\ record.fp_score = Dec(0)
                     /\ record.prioritization_score = Dec(0)
                     /\ \A k \in {"cf", "ce", "ff", "fe"} : ~record.significant[k]

Abs(n) == IF n < 0 THEN 0 - n ELSE n

MaxInstances == 4

RankTypes == {"Assertion Roulette", "Empty Test", "Sleepy Test"}

\* the coefficient all four correlations of a type take
RankRhos == { Dec(0), Dec(Unit), Dec(0 - Unit), Dec(50000000), DecNaN }

\* a nan score comes from a column of equal values, and every type of the
\* same run then scores nan (presence varies) or 0 (presence constant)
RankScores ==
    { f \in [RankTypes -> RankRhos] :
        (\E t \in RankTypes : f[t].nan) =>
            \A t \in RankTypes : f[t].nan \/ f[t].v = 0 }

\* results[smell_type] of lines 371-414 for each type, in the order of
\* smells_by_type, each with the coefficient chosen for it
RECURSIVE RankRecords(_, _, _, _)
RankRecords(results, types, smells_by_type, rho_of) ==
    IF types = << >> THEN results
    ELSE RankRecords(
             DictSet(results, Head(types),
                     RecordAround(
                         Scores([k \in 1..4 |->
                                   [rho |-> rho_of[Head(types)],
                                    p   |-> IF rho_of[Head(types)].nan
                                            THEN "nan" ELSE "above"]]),
                         Head(types), smells_by_type.at[Head(types)],
                         FilesOf(smells_by_type.at[Head(types)]))),
             Tail(types), smells_by_type, rho_of)

RankMetrics(smell_instances, rho_of) ==
    RankRecords(DictEmpty, GroupByType(DictEmpty, smell_instances).keys,
                GroupByType(DictEmpty, smell_instances), rho_of)

InitRank ==
    /\ pc = "setup"
    /\ repo = [git |-> "logfail", dotgit |-> TRUE, log |-> << >>]
    /\ disk = << >>
    /\ \E f \in RankScores :
           call = [op |-> "rank_smells", smell_instances |-> << >>, rho_of |-> f]
    /\ ret = NoRet

AddInstance ==
    /\ pc = "setup"
    /\ Len(call.smell_instances) < MaxInstances
    /\ \E t \in RankTypes :
           call' = [call EXCEPT !.smell_instances =
                       Append(@, [type |-> t, line |-> Len(@) + 1, file |-> TestA])]
    /\ UNCHANGED <<pc, repo, disk, ret>>

CallRank ==
    /\ pc = "setup"
    /\ call.smell_instances /= << >>
    /\ pc' = "done"
    /\ ret' = [raised |-> FALSE,
               value  |-> rank_smells(RankMetrics(call.smell_instances,
                                                  call.rho_of))]
    /\ UNCHANGED <<repo, disk, call>>

NextRank == AddInstance \/ CallRank

SpecRank == InitRank /\ [][NextRank]_vars

(***************************************************************************)
(* Claim C11: the order and the ranks rank_smells gives                    *)
(***************************************************************************)

RankDone == pc = "done" /\ call.op = "rank_smells"

\* where a smell type is first met in the list of instances
FirstMet(smell_instances, t) ==
    CHOOSE i \in 1..Len(smell_instances) :
        /\ smell_instances[i].type = t
        /\ \A j \in 1..(i - 1) : smell_instances[j].type /= t

ScoreBelow(a, b) ==
    /\ ~a.prioritization_score.nan
    /\ ~b.prioritization_score.nan
    /\ a.prioritization_score.v < b.prioritization_score.v

ScoreSame(a, b) ==
    /\ ~a.prioritization_score.nan
    /\ ~b.prioritization_score.nan
    /\ a.prioritization_score.v = b.prioritization_score.v

\* C11: rank_smells returns one entry per smell type; no entry has a lower
\* score than a later one; entries of the same score keep the order in which
\* their types were first met in the smell instances; the entry at position
\* i carries rank i
C11_RankedByScore ==
    RankDone =>
        LET ranked == ret.value.ranked
            inst   == call.smell_instances
        IN  /\ { ranked[i].smell_type : i \in 1..Len(ranked) }
                   = { inst[i].type : i \in 1..Len(inst) }
            /\ Len(ranked) = Cardinality({ inst[i].type : i \in 1..Len(inst) })
            /\ \A i \in 1..Len(ranked) : ranked[i].data_rank = i
            /\ \A i, j \in 1..Len(ranked) :
                   i < j =>
                       /\ ~ScoreBelow(ranked[i], ranked[j])
                       /\ ScoreSame(ranked[i], ranked[j]) =>
                              FirstMet(inst, ranked[i].smell_type)
                                  < FirstMet(inst, ranked[j].smell_type)

\* three types ranked, two of them of the same score, and the type met
\* first not ranked first
C11_Witness ==
    /\ RankDone
    /\ Len(ret.value.ranked) = 3
    /\ \E i, j \in 1..3 : i < j /\ ScoreSame(ret.value.ranked[i], ret.value.ranked[j])
    /\ ret.value.ranked[1].smell_type /= call.smell_instances[1].type


(***************************************************************************)
(* SpecFileClass: a path typed piece by piece, then classified             *)
(***************************************************************************)

MaxPathPieces == 3

PathPieces ==
    { <<"/">>, <<"\\">>, <<"t", "e", "s", "t", "s">>, <<"T", "e", "s", "t", "_">>,
      <<"x", "_", "T", "E", "S", "T", ".">>, <<"a">>, <<"S", "R", "C">>,
      <<".", "p", "y">>, <<"_", "_", "i", "n", "i", "t", "_", "_", ".", "P", "y">>,
      <<"s", "e", "t", "u", "p", ".", "p", "y">> }

\* the two classifiers applied to one path
ClassifyPath(path) ==
    [test |-> is_test_file(path), production |-> is_production_file(path)]

InitFileClass ==
    /\ pc = "setup"
    /\ repo = [git |-> "logfail", dotgit |-> TRUE, log |-> << >>]
    /\ disk = << >>
    /\ call = [op |-> "classify", pieces |-> 0, path |-> << >>]
    /\ ret = NoRet

TypePathPiece ==
    /\ pc = "setup" /\ call.pieces < MaxPathPieces
    /\ \E f \in PathPieces :
           call' = [call EXCEPT !.pieces = @ + 1, !.path = @ \o f]
    /\ UNCHANGED <<pc, repo, disk, ret>>

CallClassifyPath ==
    /\ pc = "setup"
    /\ pc' = "done"
    /\ ret' = [raised |-> FALSE, value |-> ClassifyPath(call.path)]
    /\ UNCHANGED <<repo, disk, call>>

NextFileClass == TypePathPiece \/ CallClassifyPath

SpecFileClass == InitFileClass /\ [][NextFileClass]_vars

(***************************************************************************)
(* Claim C12: the classes of a path                                        *)
(***************************************************************************)

\* the letter in the other case, any other character as it is
OtherCase(c) ==
    IF c \in UpperCase THEN Ascii[Ord(c) + 28]
    ELSE IF c \in LowerCase THEN Ascii[Ord(c) - 28]
    ELSE c

\* the other separator, any other character as it is
OtherSeparator(c) == IF c = "/" THEN "\\" ELSE IF c = "\\" THEN "/" ELSE c

\* the path in other letter case or with other separators: all of it, or
\* at one position
Respellings(path) ==
    { [i \in 1..Len(path) |-> OtherCase(path[i])],
      [i \in 1..Len(path) |-> LowerChar(path[i])],
      [i \in 1..Len(path) |-> OtherSeparator(path[i])],
      [i \in 1..Len(path) |-> IF path[i] = "\\" THEN "/" ELSE path[i]],
      [i \in 1..Len(path) |-> IF path[i] = "/" THEN "\\" ELSE path[i]] }
    \cup { [path EXCEPT ![i] = OtherCase(@)] : i \in 1..Len(path) }
    \cup { [path EXCEPT ![i] = OtherSeparator(@)] : i \in 1..Len(path) }

FileClassDone == pc = "done" /\ call.op = "classify"

\* C12: no path is both a test file and a production file, so every path is
\* in exactly one of the classes test, production, other; the path spelled
\* in other letter case or with the other separator is in the same class
C12_OneClassAnySpelling ==
    FileClassDone =>
        /\ ~(ret.value.test /\ ret.value.production)
        /\ \A other \in Respellings(call.path) : ClassifyPath(other) = ret.value

\* a test path and a production path, each with capitals and a backslash
C12_Witness ==
    /\ FileClassDone
    /\ ret.value.production
    /\ \E i \in 1..Len(call.path) : call.path[i] \in UpperCase
    /\ \E i \in 1..Len(call.path) : call.path[i] = "\\"


(***************************************************************************)
(* SpecCochange: commits over test files of the same name in two folders,  *)
(* then the co-change map or the combined vectors of the population        *)
(***************************************************************************)

MaxCochangeCommits == 2

PkgTestA == <<"p", "k", "g", "/", "t", "e", "s", "t", "_", "a", ".", "p", "y">>

AppSuffixTest ==
    <<"a", "p", "p", "/", "b", "_", "t", "e", "s", "t", ".", "p", "y">>

LibSuffixTest ==
    <<"l", "i", "b", "/", "b", "_", "t", "e", "s", "t", ".", "p", "y">>

CochangeChangeSets ==
    { << <<<<"1">>, <<"2">>, TestA>>, <<<<"2">>, <<"2">>, ProdA>> >>,
      << <<<<"1">>, <<"1">>, PkgTestA>> >>,
      << <<<<"1">>, <<"0">>, ProdA>> >>,
      << <<<<"4">>, <<"1">>, PkgTestA>>, <<<<"1">>, <<"0">>, ProdB>> >>,
      << <<<<"3">>, <<"3">>, LibSuffixTest>>, <<<<"1">>, <<"1">>, Readme>> >> }

\* the files static analysis found smells in
CochangeSmellFiles == {TestA, PkgTestA, AppSuffixTest}

InitCochange ==
    /\ pc = "setup"
    /\ repo = [git |-> "logfail", dotgit |-> TRUE, log |-> << >>]
    /\ disk = << >>
    /\ call = NoCall
    /\ ret = NoRet

CommitCochange ==
    GitCommitFrom(MaxCochangeCommits, MetricsSubjects, CochangeChangeSets)

\* line 492, reached with commits and a population
CallCochange ==
    /\ pc = "setup"
    /\ extract_git_history(repo).value /= << >>
    /\ \E smelly \in SUBSET CochangeSmellFiles :
           LET commits        == extract_git_history(repo).value
               all_test_files == PopulationOf(_build_file_metrics(commits), smelly)
           IN  /\ all_test_files /= << >>
               /\ call' = [op |-> "_build_cochange_map",
                           test_files |-> all_test_files, smelly |-> smelly]
               /\ ret' = [raised |-> FALSE,
                          value  |-> _build_cochange_map(all_test_files, commits)]
    /\ pc' = "done"
    /\ UNCHANGED <<repo, disk>>

\* lines 498-500, reached with commits and a population
CallVectors ==
    /\ pc = "setup"
    /\ extract_git_history(repo).value /= << >>
    /\ \E smelly \in SUBSET CochangeSmellFiles :
           LET commits        == extract_git_history(repo).value
               all_test_files == PopulationOf(_build_file_metrics(commits), smelly)
           IN  /\ all_test_files /= << >>
               /\ call' = [op |-> "_build_combined_vectors",
                           test_files |-> all_test_files, smelly |-> smelly]
               /\ ret' = [raised |-> FALSE,
                          value  |-> _build_combined_vectors(
                                         all_test_files,
                                         _build_file_metrics(commits),
                                         _build_cochange_map(all_test_files, commits),
                                         Len(commits))]
    /\ pc' = "done"
    /\ UNCHANGED <<repo, disk>>

NextCochange == CommitCochange \/ CallCochange \/ CallVectors

SpecCochange == InitCochange /\ [][NextCochange]_vars

(***************************************************************************)
(* Claim C13: what the co-change map holds                                 *)
(***************************************************************************)

CochangeDone == pc = "done" /\ call.op = "_build_cochange_map"

\* the paths a commit changed
ChangedBy(commit) == Range(commit.files_changed.keys)

\* the co-change set of a test file of the population
CochangeOf(map, tf) == IF DictHas(map, tf) THEN map.at[tf] ELSE {}

\* C13: a production file is in the co-change set of a test file of the
\* population only if some commit changed both, and a commit that changed a
\* test file of the population and production files adds them to that test
\* file's set
C13_CochangedTogether ==
    CochangeDone =>
        LET commits == extract_git_history(repo).value
            tests   == Range(call.test_files)
        IN  /\ Range(ret.value.keys) \subseteq tests
            /\ \A tf \in tests : \A pf \in CochangeOf(ret.value, tf) :
                   \E i \in 1..Len(commits) :
                       {tf, pf} \subseteq ChangedBy(commits[i])
            /\ \A i \in 1..Len(commits) :
                   \A tf \in ChangedBy(commits[i]) \cap tests :
                       { pf \in ChangedBy(commits[i]) : is_production_file(pf) }
                           \subseteq CochangeOf(ret.value, tf)


(***************************************************************************)
(* SpecMatch: two paths typed piece by piece, then paths_match             *)
(***************************************************************************)

MaxMatchPieces == 2

MatchPieces ==
    { <<"a", "/">>, <<"B", "/">>, <<"b", "\\">>, <<"/">>,
      <<"t", "e", "s", "t", "a">>, <<"x", "_", "t", "e", "s", "t", ".">> }

InitMatch ==
    /\ pc = "setup"
    /\ repo = [git |-> "logfail", dotgit |-> TRUE, log |-> << >>]
    /\ disk = << >>
    /\ call = [op |-> "paths_match", smell_pieces |-> 0, smell_path |-> << >>,
               git_pieces |-> 0, git_path |-> << >>]
    /\ ret = NoRet

TypeSmellPath ==
    /\ pc = "setup" /\ call.smell_pieces < MaxMatchPieces
    /\ \E f \in MatchPieces :
           call' = [call EXCEPT !.smell_pieces = @ + 1, !.smell_path = @ \o f]
    /\ UNCHANGED <<pc, repo, disk, ret>>

TypeGitPath ==
    /\ pc = "setup" /\ call.git_pieces < MaxMatchPieces
    /\ \E f \in MatchPieces :
           call' = [call EXCEPT !.git_pieces = @ + 1, !.git_path = @ \o f]
    /\ UNCHANGED <<pc, repo, disk, ret>>

CallMatch ==
    /\ pc = "setup"
    /\ pc' = "done"
    /\ ret' = [raised |-> FALSE,
               value  |-> paths_match(call.smell_path, call.git_path)]
    /\ UNCHANGED <<repo, disk, call>>

NextMatch == TypeSmellPath \/ TypeGitPath \/ CallMatch

SpecMatch == InitMatch /\ [][NextMatch]_vars

(***************************************************************************)
(* Claim C14: when two paths match                                         *)
(***************************************************************************)

MatchDone == pc = "done" /\ call.op = "paths_match"

\* C14: paths_match returns true exactly when the normalized paths are
\* equal, or one is a suffix of the other, or the basenames are equal and
\* both paths are classified as test files; otherwise false
C14_MatchIffStated ==
    MatchDone =>
        LET a == _normalize(call.smell_path)
            b == _normalize(call.git_path)
        IN  /\ ret.value \in BOOLEAN
            /\ ret.value <=>
                   \/ a = b
                   \/ EndsWith(a, b)
                   \/ EndsWith(b, a)
                   \/ /\ LastSegment(a) = LastSegment(b)
                      /\ is_test_file(call.smell_path)
                      /\ is_test_file(call.git_path)


(***************************************************************************)
(* Claims C15-C16: the combined vectors of the population                  *)
(***************************************************************************)

VectorsDone == pc = "done" /\ call.op = "_build_combined_vectors"

\* the sum of total_changes over the files of history a classifier accepts
SumOfChanges(file_metrics, files) ==
    SeqSum([i \in 1..Len(files) |-> file_metrics.at[files[i]].total_changes])

RECURSIVE SumOver(_, _, _)
SumOver(file_metrics, files, metric) ==
    IF files = {} THEN 0
    ELSE LET f == CHOOSE g \in files : TRUE
         IN  file_metrics.at[f][metric] + SumOver(file_metrics, files \ {f}, metric)

\* a / d, which has no value for d = 0
Quotient(a, d) == IF d = 0 THEN FNaN ELSE FRatio(a, d)

\* the metrics history holds for a test file: those of its own path, else
\* those of a path of history it matches, else none
OwnMetrics(file_metrics, tf) ==
    IF DictHas(file_metrics, tf) THEN { file_metrics.at[tf] }
    ELSE IF \E g \in Range(file_metrics.keys) : paths_match(tf, g)
         THEN { file_metrics.at[g] :
                  g \in { h \in Range(file_metrics.keys) : paths_match(tf, h) } }
         ELSE { ZeroMetrics }

\* two commits: a fault-fixing one on T and P, then another on P only
ScenarioD ==
    /\ Len(extract_git_history(repo).value) = 2
    /\ LET newest == extract_git_history(repo).value[1]
           oldest == extract_git_history(repo).value[2]
       IN  /\ Range(newest.files_changed.keys) = {ProdA}
           /\ ~newest.is_faulty
           /\ Range(oldest.files_changed.keys) = {TestA, ProdA}
           /\ oldest.is_faulty

\* C15: each signal of a test file T is (the sum of the metric over T's
\* co-changed production files) / prod_total + (T's own metric) / test_total,
\* prod_total and test_total being the sums of total_changes over the
\* production files and over the test files of history; in scenario D
\* chg_freq(T) = 2/2 + 1/1 and fault_freq(T) = 1/2 + 1/1
C15_SignalsAreRatioSums ==
    VectorsDone =>
        LET commits      == extract_git_history(repo).value
            file_metrics == _build_file_metrics(commits)
            cochange_map == _build_cochange_map(call.test_files, commits)
            prod_total   == SumOfChanges(file_metrics,
                                SelectSeq(file_metrics.keys, is_production_file))
            test_total   == SumOfChanges(file_metrics,
                                SelectSeq(file_metrics.keys, is_test_file))
        IN  /\ \A tf \in Range(call.test_files) :
                   \E tm \in OwnMetrics(file_metrics, tf) :
                       \A k \in DOMAIN MetricOf :
                           FEq(ret.value.at[tf][k],
                               FAdd(Quotient(SumOver(file_metrics,
                                                     CochangeOf(cochange_map, tf),
                                                     MetricOf[k]),
                                             prod_total),
                                    Quotient(tm[MetricOf[k]], test_total)))
            /\ ScenarioD =>
                   /\ ret.value.at[TestA].chg_freq
                          = FAdd(FRatio(2, 2), FRatio(1, 1))
                   /\ ret.value.at[TestA].fault_freq
                          = FAdd(FRatio(1, 2), FRatio(1, 1))


\* the paths of the commits of history
PathsOfHistory ==
    UNION { ChangedBy(extract_git_history(repo).value[i]) :
              i \in 1..Len(extract_git_history(repo).value) }

\* a file no path of history stands for
InNoCommit(tf) == \A g \in PathsOfHistory : ~paths_match(tf, g)

MaxStatements == 5

Docstring == ExprStmt(Constant(PyStr(<<"d">>)))

AssertEqual ==
    AssertStmt(Compare(Name(<<"a">>), <<"Eq">>, <<Name(<<"b">>)>>))

\* the statements typed into the body
Statements ==
    { PassStmt, Docstring, AssertEqual,
      AssertMsgStmt(Compare(Name(<<"a">>), <<"Eq">>, <<Name(<<"b">>)>>),
                    Constant(PyStr(<<"m">>))),
      AssertStmt(Name(<<"c">>)) }

FunctionNames == { TestPrefix \o <<"a">>, <<"h", "e", "l", "p", "e", "r">> }

FileOf(function) == [path |-> TestA, source |-> Module(<<function>>)]

\* the function of the file on disk, as typed and as a node at its line
TypedFunction == disk[1].source.children[1]

TypedNode == Layout(TypedFunction, 1).node

InitFunction ==
    /\ pc = "setup"
    /\ repo = [git |-> "logfail", dotgit |-> TRUE, log |-> << >>]
    /\ \E name \in FunctionNames : disk = <<FileOf(FunctionDef(name, << >>))>>
    /\ call = NoCall
    /\ ret = NoRet

TypeStatement ==
    /\ pc = "setup"
    /\ Len(TypedFunction.children) < MaxStatements
    /\ \E statement \in Statements :
           disk' = <<FileOf(FunctionDef(TypedFunction.name,
                                        Append(TypedFunction.children, statement)))>>
    /\ UNCHANGED <<pc, repo, call, ret>>

\* the last statement, an assertion of a == b, is put under if c:
NestStatement ==
    /\ pc = "setup"
    /\ TypedFunction.children /= << >>
    /\ TypedFunction.children[Len(TypedFunction.children)] = AssertEqual
    /\ disk' = <<FileOf(FunctionDef(
                     TypedFunction.name,
                     [TypedFunction.children
                         EXCEPT ![Len(TypedFunction.children)] =
                                    Block("If", Name(<<"c">>), <<AssertEqual>>)]))>>
    /\ UNCHANGED <<pc, repo, call, ret>>

CallFunctionSmells ==
    /\ pc = "setup"
    /\ pc' = "done"
    /\ call' = [op |-> "_analyze_function_smells", func_node |-> TypedNode]
    /\ ret' = [raised |-> FALSE, value |-> _analyze_function_smells(TypedNode)]
    /\ UNCHANGED <<repo, disk>>

CallDetectAll ==
    /\ pc = "setup"
    /\ pc' = "done"
    /\ call' = [op |-> "detect_all_smells", file |-> disk[1]]
    /\ ret' = [raised |-> FALSE, value |-> detect_all_smells(disk[1])]
    /\ UNCHANGED <<repo, disk>>

NextFunction ==
    TypeStatement \/ NestStatement \/ CallFunctionSmells \/ CallDetectAll

SpecFunction == InitFunction /\ [][NextFunction]_vars

FunctionDone == pc = "done" /\ call.op = "_analyze_function_smells"

FileDone == pc = "done" /\ call.op = "detect_all_smells"

IsTestFunction(function) == StartsWith(function.name, TestPrefix)

IsDocstring(statement) ==
    /\ statement.type = "Expr"
    /\ statement.children[1].type = "Constant"
    /\ statement.children[1].value.t = "str"

\* the body is empty, only pass, or only a docstring
HasEmptyBody(function) ==
    \/ function.children = << >>
    \/ /\ Len(function.children) = 1
       /\ \/ function.children[1].type = "Pass"
          \/ IsDocstring(function.children[1])

OnlyEmptyTestAt(smells, line) ==
    /\ Len(smells) = 1
    /\ smells[1].type = "Empty Test"
    /\ smells[1].line = line

\* C17: for a test function whose body is empty, only pass, or only a
\* docstring, the function-scope pass emits exactly one Empty Test instance,
\* at that function, and no other smell; a file that holds only such a
\* function (and can be parsed) yields exactly that one instance.
C17_EmptyBodyIsOneEmptyTest ==
    /\ (FunctionDone /\ IsTestFunction(call.func_node)
            /\ HasEmptyBody(call.func_node))
       => OnlyEmptyTestAt(ret.value, call.func_node.lineno)
    /\ (FileDone /\ ~Parse(call.file.source).raised
            /\ IsTestFunction(TypedFunction) /\ HasEmptyBody(TypedFunction))
       => OnlyEmptyTestAt(ret.value, TypedNode.lineno)

C17_Witness ==
    /\ FileDone
    /\ IsTestFunction(TypedFunction)
    /\ TypedFunction.children = <<Docstring>>
    /\ OnlyEmptyTestAt(ret.value, 1)


\* C18: a test function whose body is a docstring followed only by pass is
\* reported as Empty Test, as the fixture files label such functions.
C18_DocstringAndPassIsEmptyTest ==
    (FunctionDone /\ IsTestFunction(call.func_node)
         /\ Len(call.func_node.children) = 2
         /\ IsDocstring(call.func_node.children[1])
         /\ call.func_node.children[2].type = "Pass")
    => \E i \in 1..Len(ret.value) : ret.value[i].type = "Empty Test"

\* the instances of a type in a list of smells
OfSmellType(smells, type) == SelectSeq(smells, LAMBDA s : s.type = type)

\* ast.iter_child_nodes followed depth first: the nodes in source order
RECURSIVE SourceOrder(_)
RECURSIVE SourceOrderAll(_)
SourceOrder(node) == <<node>> \o SourceOrderAll(node.children)

SourceOrderAll(nodes) ==
    IF nodes = << >> THEN << >>
    ELSE SourceOrder(Head(nodes)) \o SourceOrderAll(Tail(nodes))

\* the assert statements of a function from its first line to its last
AssertsOf(function) == OfType(SourceOrder(function), {"Assert"})

\* the assertion has the expression of one before it
IsRepeat(asserts, i) ==
    \E j \in 1..(i - 1) : unparse(asserts[j].children[1]) = unparse(asserts[i].children[1])

\* C19: within one test function, Duplicate Assert is never reported for the
\* first occurrence in source order of an assertion expression; it is
\* reported once for each later assertion of the same text; and the line it
\* references is smaller than the line at which it is reported, whatever the
\* nesting depth of the assertions.
C19_DuplicateAfterFirst ==
    (FunctionDone /\ IsTestFunction(call.func_node))
    => LET asserts    == AssertsOf(call.func_node)
           duplicates == OfSmellType(ret.value, "Duplicate Assert")
       IN  /\ \A i \in 1..Len(asserts) :
                  Len(SelectSeq(duplicates,
                                LAMBDA s : s.line = asserts[i].lineno))
                      = IF IsRepeat(asserts, i) THEN 1 ELSE 0
           /\ \A k \in 1..Len(duplicates) :
                  duplicates[k].message.count < duplicates[k].line

\* C20: a test function with more than 3 assert statements of which more
\* than 3 carry no message yields exactly one Assertion Roulette instance,
\* at the function's own line; one with 3 or fewer message-less asserts
\* yields none.
C20_RouletteAboveThree ==
    (FunctionDone /\ IsTestFunction(call.func_node))
    => LET bare     == SelectSeq(AssertsOf(call.func_node),
                                 LAMBDA a : FieldOf(a, "msg") = << >>)
           roulette == OfSmellType(ret.value, "Assertion Roulette")
       IN  IF Len(AssertsOf(call.func_node)) > 3 /\ Len(bare) > 3
           THEN Len(roulette) = 1 /\ roulette[1].line = call.func_node.lineno
           ELSE roulette = << >>

C20_Witness ==
    /\ FunctionDone
    /\ IsTestFunction(call.func_node)
    /\ Len(AssertsOf(call.func_node)) = 5
    /\ Len(SelectSeq(AssertsOf(call.func_node),
                     LAMBDA a : FieldOf(a, "msg") = << >>)) = 4
    /\ \E k \in 1..5 : AssertsOf(call.func_node)[k].lineno = 3
                          /\ call.func_node.children[1].type = "If"
    /\ OfSmellType(ret.value, "Assertion Roulette") /= << >>


(***************************************************************************)
(* The class-scope pass on one class                                       *)
(*                                                                         *)
(* A file holds one class of a setup method and two test methods;          *)
(* assignments are typed into the setup method and references to instance  *)
(* attributes into the test methods, and the class or the file is handed   *)
(* to the detectors.                                                       *)
(***************************************************************************)

MaxAssignments == 7

SelfName == Name(<<"s", "e", "l", "f">>)

\* the names the setup method is given: the four the detector knows, and one
\* it does not
SetupMethodNames == SetupNames \cup { <<"s", "e", "t", "_", "u", "p">> }

\* the instance attributes the test methods refer to
InstanceAttributes == { <<"x">>, <<"y">> }

\* the class of the file on disk, as typed and as a node at its line
TypedClass == disk[1].source.children[1]

TypedClassNode == Layout(TypedClass, 1).node

\* a statement added to a block that so far holds only pass, or not only pass
AddToBlock(body, statement) ==
    IF body = <<PassStmt>> THEN <<statement>> ELSE Append(body, statement)

\* the class with the body of its i-th method replaced
WithMethodBody(class, i, body) ==
    ClassDef(class.name,
             [class.children EXCEPT ![i] = FunctionDef(class.children[i].name, body)])

InitClass ==
    /\ pc = "setup"
    /\ repo = [git |-> "logfail", dotgit |-> TRUE, log |-> << >>]
    /\ \E name \in SetupMethodNames :
           disk = <<FileOf(ClassDef(<<"T">>,
                                    << FunctionDef(name, <<PassStmt>>),
                                       FunctionDef(TestPrefix \o <<"a">>, <<PassStmt>>),
                                       FunctionDef(TestPrefix \o <<"b">>, <<PassStmt>>) >>))>>
    /\ call = NoCall
    /\ ret = NoRet

\* self.x = c is added to the setup method
TypeAssignment ==
    /\ pc = "setup"
    /\ Len(OfType(TypedClass.children[1].children, {"Assign"})) < MaxAssignments
    /\ disk' = <<FileOf(WithMethodBody(
                     TypedClass, 1,
                     AddToBlock(TypedClass.children[1].children,
                                AssignStmt(Attribute(SelfName, <<"x">>),
                                           Name(<<"c">>)))))>>
    /\ UNCHANGED <<pc, repo, call, ret>>

\* assert self.<attr> is added to a test method that has no such line yet
TypeReference ==
    /\ pc = "setup"
    /\ \E i \in {2, 3}, attr \in InstanceAttributes :
           /\ AssertStmt(Attribute(SelfName, attr))
                  \notin Range(TypedClass.children[i].children)
           /\ disk' = <<FileOf(WithMethodBody(
                            TypedClass, i,
                            AddToBlock(TypedClass.children[i].children,
                                       AssertStmt(Attribute(SelfName, attr)))))>>
    /\ UNCHANGED <<pc, repo, call, ret>>

CallClassSmells ==
    /\ pc = "setup"
    /\ pc' = "done"
    /\ call' = [op |-> "_analyze_class_smells", class_node |-> TypedClassNode]
    /\ ret' = [raised |-> FALSE, value |-> _analyze_class_smells(TypedClassNode)]
    /\ UNCHANGED <<repo, disk>>

CallDetectClass ==
    /\ pc = "setup"
    /\ pc' = "done"
    /\ call' = [op |-> "detect_all_smells", file |-> disk[1]]
    /\ ret' = [raised |-> FALSE, value |-> detect_all_smells(disk[1])]
    /\ UNCHANGED <<repo, disk>>

NextClass == TypeAssignment \/ TypeReference \/ CallClassSmells \/ CallDetectClass

SpecClass == InitClass /\ [][NextClass]_vars

ClassDone == pc = "done" /\ call.op = "_analyze_class_smells"

\* the assignment statements of a method, nested ones included
AssignmentsOf(method) == OfType(SourceOrder(method), {"Assign"})

\* the attributes of self a method refers to
ReferencedBy(method) ==
    { n.name : n \in { m \in Range(SourceOrder(method)) :
                         /\ m.type = "Attribute"
                         /\ m.children[1] = [SelfName EXCEPT !.lineno = m.lineno] } }

\* scenario A: a setup method of 6 assignments, two test methods that each
\* refer to instance attributes and have none in common
ScenarioA(class) ==
    /\ class.children[1].name \in SetupNames
    /\ Len(AssignmentsOf(class.children[1])) = 6
    /\ ReferencedBy(class.children[2]) /= {}
    /\ ReferencedBy(class.children[3]) /= {}
    /\ ReferencedBy(class.children[2]) \cap ReferencedBy(class.children[3]) = {}

\* C21: a test class with a setup method of 6 assignments and two test
\* methods that share no instance attribute yields at least one General
\* Fixture instance and one Lack of Cohesion of Test Cases instance, from the
\* class-scope pass and from the detection of the file.
C21_FixtureAndCohesion ==
    ((ClassDone \/ FileDone) /\ ScenarioA(TypedClassNode))
    => /\ OfSmellType(ret.value, "General Fixture") /= << >>
       /\ OfSmellType(ret.value, "Lack of Cohesion of Test Cases") /= << >>

C21_Witness ==
    /\ FileDone
    /\ ScenarioA(TypedClassNode)
    /\ Len(OfSmellType(ret.value, "General Fixture")) = 1
    /\ OfSmellType(ret.value, "General Fixture")[1].line = 2
    /\ Len(OfSmellType(ret.value, "Lack of Cohesion of Test Cases")) = 1


(***************************************************************************)
(* The batch over the test files of a project                              *)
(*                                                                         *)
(* Files are written under the project, some of them not parseable or not  *)
(* text at all, under names that fit one or both of the two patterns; then *)
(* detect_smells_for_project runs.                                         *)
(***************************************************************************)

MaxBatchFiles == 3

\* test_b_test.py: a name both patterns fit
BothTest == TestPrefix \o SuffixTest

\* def test_a(): without a statement: ast.parse raises SyntaxError
BrokenSource == Module(<< FunctionDef(TestPrefix \o <<"a">>, << >>) >>)

\* bytes that are not UTF-8: read_text raises UnicodeDecodeError
NotText == Node("NotText", << >>, NoValue, << >>, << >>, << >>)

BatchFiles ==
    [path : {TestA, SuffixTest, BothTest}, source : {RouletteSource, BrokenSource, NotText}]

\* lines 46-72: the instances the run collects and hands to the correlator
AllSmellInstances(project) ==
    InstancesOf(SelectSeq(project.disk, FitsTestPrefix)
                    \o SelectSeq(project.disk, FitsTestSuffix))

InitBatch ==
    /\ pc = "setup"
    /\ repo = [git |-> "logfail", dotgit |-> TRUE, log |-> << >>]
    /\ disk = << >>
    /\ call = NoCall
    /\ ret = NoRet

WriteBatchFile ==
    /\ pc = "setup"
    /\ Len(disk) < MaxBatchFiles
    /\ \E file \in BatchFiles :
           /\ \A i \in 1..Len(disk) : disk[i].path /= file.path
           /\ disk' = Append(disk, file)
    /\ UNCHANGED <<pc, repo, call, ret>>

CallDetectBatch ==
    /\ pc = "setup"
    /\ pc' = "done"
    /\ \E include_git_metrics \in BOOLEAN :
           /\ call' = [op |-> "detect_smells_for_project",
                       include_git_metrics |-> include_git_metrics,
                       cp_weight |-> 5,
                       all_smell_instances |-> AllSmellInstances(Project)]
           /\ ret' = detect_smells_for_project(Project, include_git_metrics, 5)
    /\ UNCHANGED <<repo, disk>>

NextBatch == WriteBatchFile \/ CallDetectBatch

SpecBatch == InitBatch /\ [][NextBatch]_vars

\* the files of the project that cannot be read or parsed
CannotParse(file) == file.source \in {BrokenSource, NotText}

\* the entries of details for a file
EntriesFor(details, file) == SelectSeq(details, LAMBDA entry : entry.file = file.path)

RECURSIVE SumOfCounts(_)
SumOfCounts(details) ==
    IF details = << >> THEN 0
    ELSE Head(details).smell_count + SumOfCounts(Tail(details))

\* C22: a test file that cannot be read or parsed does not abort the batch:
\* the run returns, every other matched file has its smells in details, the
\* unparseable file is counted in total_files, and it contributes zero
\* smells to details, to total_smells and to the instances handed to the
\* correlator.
C22_UnparseableFileIsSkipped ==
    DetectDone
    => /\ ~ret.raised
       /\ \A i \in TestFilesOf(disk) :
              /\ EntriesFor(ret.value.details, disk[i]) /= << >>
              /\ \A entry \in Range(EntriesFor(ret.value.details, disk[i])) :
                     /\ entry.smells = IF CannotParse(disk[i]) THEN << >>
                                       ELSE SmellsOfTree(Parse(disk[i].source).tree)
                     /\ entry.smell_count = Len(entry.smells)
              /\ CannotParse(disk[i])
                     => \A instance \in Range(call.all_smell_instances) :
                            instance.file /= disk[i].path
       /\ ret.value.total_files >= Cardinality(TestFilesOf(disk))
       /\ ret.value.total_smells = SumOfCounts(ret.value.details)
       /\ ret.value.total_smells = Len(call.all_smell_instances)

C22_Witness ==
    /\ DetectDone
    /\ Len(disk) = 3
    /\ disk[1].source = NotText
    /\ disk[2].source = BrokenSource
    /\ disk[3].source = RouletteSource
    /\ ret.value.total_files >= 3
    /\ ret.value.total_smells >= 1

\* C30: in one detect_smells_for_project run every test file on disk is
\* analyzed exactly once: details holds one entry per distinct file,
\* total_files is the number of distinct matched files, and no smell
\* instance of a file is passed to the correlator twice, whatever the file is
\* named.
C30_EachFileOnce ==
    DetectDone
    => /\ \A i \in TestFilesOf(disk) : Len(EntriesFor(ret.value.details, disk[i])) = 1
       /\ Len(ret.value.details) = Cardinality(TestFilesOf(disk))
       /\ ret.value.total_files = Cardinality(TestFilesOf(disk))
       /\ \A i, j \in 1..Len(call.all_smell_instances) :
              call.all_smell_instances[i] = call.all_smell_instances[j] => i = j


(***************************************************************************)
(* Assertions that compare with literals                                   *)
(*                                                                         *)
(* A test function is typed one assertion at a time: a is compared, by ==  *)
(* or is, with a literal or a name, and a comparison may be chained once.  *)
(***************************************************************************)

MaxComparisons == 2

Comparators ==
    { Constant(PyBool(TRUE)), Constant(PyBool(FALSE)), Constant(PyIntValue(0)),
      Constant(PyIntValue(1)), Constant(PyIntValue(2)), Name(<<"b">>) }

InitCompare ==
    /\ pc = "setup"
    /\ repo = [git |-> "logfail", dotgit |-> TRUE, log |-> << >>]
    /\ disk = <<FileOf(FunctionDef(TestPrefix \o <<"a">>, << >>))>>
    /\ call = NoCall
    /\ ret = NoRet

\* assert a == <comparator> or assert a is <comparator>
TypeComparison ==
    /\ pc = "setup"
    /\ Len(TypedFunction.children) < MaxComparisons
    /\ \E op \in {"Eq", "Is"}, comparator \in Comparators :
           disk' = <<FileOf(FunctionDef(
                        TypedFunction.name,
                        Append(TypedFunction.children,
                               AssertStmt(Compare(Name(<<"a">>), <<op>>,
                                                  <<comparator>>)))))>>
    /\ UNCHANGED <<pc, repo, call, ret>>

\* the last assertion becomes a chain: assert a == x == <comparator>
ExtendComparison ==
    /\ pc = "setup"
    /\ TypedFunction.children /= << >>
    /\ LET last == TypedFunction.children[Len(TypedFunction.children)].children[1]
       IN  /\ Len(last.ops) = 1
           /\ \E comparator \in Comparators :
                  disk' = <<FileOf(FunctionDef(
                               TypedFunction.name,
                               [TypedFunction.children
                                   EXCEPT ![Len(TypedFunction.children)] =
                                       AssertStmt(Compare(
                                           last.children[1],
                                           Append(last.ops, "Eq"),
                                           Append(Tail(last.children),
                                                  comparator)))]))>>
    /\ UNCHANGED <<pc, repo, call, ret>>

NextCompare == TypeComparison \/ ExtendComparison \/ CallFunctionSmells

SpecCompare == InitCompare /\ [][NextCompare]_vars

\* the expression is the literal True or the literal False
IsBooleanLiteral(node) == node.type = "Constant" /\ node.value.t = "bool"

\* the assertion compares, and one of its comparators is a boolean literal
ComparesWithBooleanLiteral(assertion) ==
    /\ assertion.children[1].type = "Compare"
    /\ \E comparator \in Range(FieldOf(assertion.children[1], "comparators")) :
           IsBooleanLiteral(comparator)

\* C28: Suboptimal Assert is reported for an assertion exactly when one of
\* the comparators of its comparison is a boolean literal (True or False),
\* and then once; a comparison against a numeric literal such as 0 or 1 does
\* not produce it.
C28_SuboptimalIffBooleanLiteral ==
    (FunctionDone /\ IsTestFunction(call.func_node))
    => \A assertion \in Range(AssertsOf(call.func_node)) :
           Len(SelectSeq(OfSmellType(ret.value, "Suboptimal Assert"),
                         LAMBDA s : s.line = assertion.lineno))
               = IF ComparesWithBooleanLiteral(assertion) THEN 1 ELSE 0


\* C24: no stage changes a value produced by an earlier stage: when
\* rank_smells has run, every record of the metrics mapping that
\* calculate_spearman_metrics produced is equal to what it was before the
\* ranking, and the smell instances the run was given are unchanged.
C24_RankingLeavesMetrics ==
    [][(pc' = "done" /\ call.op = "rank_smells")
           => /\ call'.smell_instances = call.smell_instances
              /\ ret'.value.metrics.keys
                     = RankMetrics(call.smell_instances, call.rho_of).keys
              /\ \A k \in Range(ret'.value.metrics.keys) :
                     ret'.value.metrics.at[k]
                         = RankMetrics(call.smell_instances, call.rho_of).at[k]]_vars


\* the fault-fixing commits among the mined ones
FaultyCommitsOf(r) ==
    Len(SelectSeq(extract_git_history(r).value, LAMBDA c : c.is_faulty))

\* C27: a successful analyze_project_with_git(project_path, smell_instances)
\* result has no 'error' key and a statistics record in which total_commits
\* is the number of mined commits, faulty_commits the number of fault-fixing
\* ones (at most total_commits), and the fault percentage, read as
\* statistics['fault_percentage'] (in hundredths here), is
\* 100 * faulty_commits / total_commits.
C27_StatisticsOfSuccess ==
    (AnalyzeDone /\ "ranked_smells" \in ret.value.keys)
    => /\ "error" \notin ret.value.keys
       /\ "statistics" \in ret.value.keys \ ret.value.null
       /\ ret.value.statistics.total_commits = CommitsOf(repo)
       /\ ret.value.statistics.faulty_commits = FaultyCommitsOf(repo)
       /\ ret.value.statistics.faulty_commits <= ret.value.statistics.total_commits
       /\ "fault_percentage" \in DOMAIN ret.value.statistics
       /\ ret.value.statistics.fault_percentage * CommitsOf(repo)
              = 10000 * FaultyCommitsOf(repo)


(***************************************************************************)
(* SpecAbbreviation: instances of any type the detector emits, then the    *)
(* records of calculate_spearman_metrics and rank_smells, whose            *)
(* abbreviations are joined with the survey module's                       *)
(***************************************************************************)

MaxEmitted == 2

\* smell_detection.py: the 'type' of every smell a detector appends
DetectorTypes ==
    { "Constructor Initialization", "General Fixture", "Test Maverick",
      "Lack of Cohesion of Test Cases", "Empty Test", "Assertion Roulette",
      "Redundant Assertion", "Suboptimal Assert", "Duplicate Assert",
      "Magic Number Test", "Obscure In-Line Setup", "Conditional Test Logic",
      "Exception Handling", "Sleepy Test", "Redundant Print" }

\* survey_service.py: abbr and name of the survey items, in order
SMELL_SURVEY_ITEMS ==
    << [abbr |-> "CTL",  name |-> "Conditional Test Logic"],
       [abbr |-> "AR",   name |-> "Assertion Roulette"],
       [abbr |-> "DA",   name |-> "Duplicate Assert"],
       [abbr |-> "MNT",  name |-> "Magic Number Test"],
       [abbr |-> "OS",   name |-> "Obscure In-Line Setup"],
       [abbr |-> "RA",   name |-> "Redundant Assertion"],
       [abbr |-> "EH",   name |-> "Exception Handling"],
       [abbr |-> "CI",   name |-> "Constructor Initialization"],
       [abbr |-> "SA",   name |-> "Suboptimal Assert"],
       [abbr |-> "TM",   name |-> "Test Maverick"],
       [abbr |-> "RP",   name |-> "Redundant Print"],
       [abbr |-> "GF",   name |-> "General Fixture"],
       [abbr |-> "ST",   name |-> "Sleepy Test"],
       [abbr |-> "ET",   name |-> "Empty Test"],
       [abbr |-> "LCTC", name |-> "Lack of Cohesion of Test Cases"] >>

\* [item["abbr"] for item in SMELL_SURVEY_ITEMS]
ALL_ABBRS == [i \in 1..Len(SMELL_SURVEY_ITEMS) |-> SMELL_SURVEY_ITEMS[i].abbr]

\* {item["abbr"]: item["name"] for item in SMELL_SURVEY_ITEMS}: a later item
\* of the same abbr replaces an earlier one
ABBR_TO_NAME ==
    [ a \in Range(ALL_ABBRS) |->
        LET last == CHOOSE i \in 1..Len(SMELL_SURVEY_ITEMS) :
                        /\ SMELL_SURVEY_ITEMS[i].abbr = a
                        /\ \A j \in (i + 1)..Len(SMELL_SURVEY_ITEMS) :
                               SMELL_SURVEY_ITEMS[j].abbr /= a
        IN  SMELL_SURVEY_ITEMS[last].name ]

InitAbbreviation ==
    /\ pc = "setup"
    /\ repo = [git |-> "logfail", dotgit |-> TRUE, log |-> << >>]
    /\ disk = << >>
    /\ call = [op |-> "abbreviate", smell_instances |-> << >>,
               rho_of |-> [t \in DetectorTypes |-> Dec(0)]]
    /\ ret = NoRet

\* the detector appends an instance of one of its types
EmitInstance ==
    /\ pc = "setup"
    /\ call.op = "abbreviate"
    /\ Len(call.smell_instances) < MaxEmitted
    /\ \E t \in DetectorTypes :
           call' = [call EXCEPT !.smell_instances =
                       Append(@, [type |-> t, line |-> Len(@) + 1, file |-> TestA])]
    /\ UNCHANGED <<pc, repo, disk, ret>>

\* the result records: rank_smells(calculate_spearman_metrics(...))
CallAbbreviate ==
    /\ pc = "setup"
    /\ call.op = "abbreviate"
    /\ call.smell_instances /= << >>
    /\ pc' = "done"
    /\ ret' = [raised |-> FALSE,
               value  |-> rank_smells(RankMetrics(call.smell_instances,
                                                  call.rho_of)).ranked]
    /\ UNCHANGED <<repo, disk, call>>

NextAbbreviation == EmitInstance \/ CallAbbreviate

SpecAbbreviation == InitAbbreviation /\ [][NextAbbreviation]_vars

AbbreviateDone == pc = "done" /\ call.op = "abbreviate"

\* C26: every smell type the detector can emit has a fixed abbreviation in
\* the table, the 15 abbreviations are pairwise distinct, and every result
\* record carries the table's abbreviation of its type, which is the
\* abbreviation under which the survey module lists the same smell name.
C26_AbbreviationJoinsSurvey ==
    /\ DetectorTypes \subseteq DOMAIN SMELL_ABBREVIATIONS
    /\ Cardinality(DetectorTypes) = 15
    /\ \A s, t \in DetectorTypes :
           SMELL_ABBREVIATIONS[s] = SMELL_ABBREVIATIONS[t] => s = t
    /\ AbbreviateDone =>
           \A i \in 1..Len(ret.value) :
               /\ ret.value[i].smell_type \in DetectorTypes
               /\ ret.value[i].abbreviation
                      = SMELL_ABBREVIATIONS[ret.value[i].smell_type]
               /\ ret.value[i].abbreviation \in DOMAIN ABBR_TO_NAME
               /\ ABBR_TO_NAME[ret.value[i].abbreviation] = ret.value[i].smell_type
               /\ \A j \in 1..Len(ret.value) :
                      ret.value[i].abbreviation = ret.value[j].abbreviation => i = j

\* result records of two types, one of them abbreviated otherwise than by
\* its initials
C26_Witness ==
    /\ AbbreviateDone
    /\ Len(ret.value) = 2
    /\ \E i \in 1..2 : /\ ret.value[i].smell_type = "Obscure In-Line Setup"
                       /\ ret.value[i].abbreviation = "OS"


(***************************************************************************)
(* SpecRuns: the requests of one user served by one event loop.  A request *)
(* runs from one await to the next without interruption; between two       *)
(* awaits of one request the steps of the other requests may run.          *)
(*   repo  the stored documents: projects_collection, runs_collection      *)
(*   disk  the directories under uploaded_projects/user_<id>               *)
(*   pc    the position of each request in its handler                     *)
(*   call  the local variables of each request                             *)
(*   ret   the number of requests received                                 *)
(***************************************************************************)

MaxSlots == 2
MaxRequests == 3
MaxProjects == 2

Slots == 1..MaxSlots

GitHub ==
    <<"h", "t", "t", "p", "s", ":", "/", "/", "g", "i", "t", "h", "u", "b",
      ".", "c", "o", "m", "/">>

\* https://github.com/a/app, https://github.com/b/app.git and
\* https://github.com/a/lib/
UrlA == GitHub \o <<"a", "/", "a", "p", "p">>
UrlB == GitHub \o <<"b", "/", "a", "p", "p", ".", "g", "i", "t">>
UrlC == GitHub \o <<"a", "/", "l", "i", "b", "/">>

Urls == {UrlA, UrlB, UrlC}

\* s.rstrip(c)
RECURSIVE RStripChar(_, _)
RStripChar(s, c) ==
    IF s /= << >> /\ s[Len(s)] = c THEN RStripChar(SubSeq(s, 1, Len(s) - 1), c)
    ELSE s

\* s.replace(sub, ""): the occurrences of sub, from the left, removed
RECURSIVE Remove(_, _)
Remove(s, sub) ==
    IF s = << >> THEN s
    ELSE IF StartsWith(s, sub) THEN Remove(SubSeq(s, Len(sub) + 1, Len(s)), sub)
    ELSE <<Head(s)>> \o Remove(Tail(s), sub)

\* repo_url.rstrip("/").split("/")[-1].replace(".git", "")
repo_name(repo_url) ==
    Remove(LastSegment(RStripChar(repo_url, "/")), <<".", "g", "i", "t">>)

\* user_dir / repo_name: the user directory is the same for every request
project_dir(repo_url) == repo_name(repo_url)

\* no checkout in a directory; no project found
Absent == << >>
NoProject == 0

NoLocals ==
    [op |-> "none", project_id |-> NoProject, repo_url |-> Absent,
     run_count |-> 0, run_id |-> 0]

\* runs_collection.count_documents({"project_id": project_id})
CountRuns(runs, project_id) ==
    Cardinality({ r \in runs : r.project_id = project_id })

\* insert_one of a run document, which gets the next _id
InsertRun(db, project_id, run_number, status) ==
    [db EXCEPT !.runs = @ \cup {[_id            |-> db.next_id,
                                 project_id     |-> project_id,
                                 run_number     |-> run_number,
                                 status         |-> status,
                                 contributors_of |-> Absent]},
               !.next_id = @ + 1]

\* insert_one of a project document
InsertProject(db, repo_url) ==
    [db EXCEPT !.projects = @ \cup {[_id |-> db.next_id, repo_url |-> repo_url]},
               !.next_id = @ + 1]

\* update_one({"_id": run_id}, {"$set": {field: value}})
UpdateRun(db, run_id, field, value) ==
    [db EXCEPT !.runs = { IF r._id = run_id THEN [r EXCEPT ![field] = value] ELSE r
                          : r \in @ }]

\* if project_dir.exists(): rmtree; git clone repo_url project_dir
Clone(d, repo_url, cloned) ==
    [d EXCEPT ![project_dir(repo_url)] = IF cloned THEN repo_url ELSE Absent]

InitRuns ==
    /\ pc = [s \in Slots |-> "idle"]
    /\ repo = [projects |-> {}, runs |-> {}, next_id |-> 1]
    /\ disk = [dir \in { project_dir(u) : u \in Urls } |-> Absent]
    /\ call = [s \in Slots |-> NoLocals]
    /\ ret = [started |-> 0]

\* projects.py 60-77: create_project
create_project ==
    /\ ret.started < MaxRequests
    /\ Cardinality(repo.projects) < MaxProjects
    /\ \E url \in Urls : repo' = InsertProject(repo, url)
    /\ ret' = [started |-> ret.started + 1]
    /\ UNCHANGED <<pc, disk, call>>

\* projects.py 124-136: trigger_run up to the answer of find_one
TriggerFind(s) ==
    /\ pc[s] = "idle"
    /\ ret.started < MaxRequests
    /\ ret' = [started |-> ret.started + 1]
    /\ \/ \E project \in repo.projects :
              /\ pc' = [pc EXCEPT ![s] = "t_count"]
              /\ call' = [call EXCEPT ![s] =
                            [NoLocals EXCEPT !.op = "trigger_run",
                                             !.project_id = project._id,
                                             !.repo_url = project.repo_url]]
       \/ \* 404: no such project
          UNCHANGED <<pc, call>>
    /\ UNCHANGED <<repo, disk>>

\* projects.py 138-140
TriggerCount(s) ==
    /\ pc[s] = "t_count"
    /\ call' = [call EXCEPT ![s].run_count = CountRuns(repo.runs, call[s].project_id)]
    /\ pc' = [pc EXCEPT ![s] = "t_insert"]
    /\ UNCHANGED <<repo, disk, ret>>

\* projects.py 142-155
TriggerInsert(s) ==
    /\ pc[s] = "t_insert"
    /\ repo' = InsertRun(repo, call[s].project_id, call[s].run_count + 1, "pending")
    /\ call' = [call EXCEPT ![s].run_id = repo.next_id]
    /\ pc' = [pc EXCEPT ![s] = "t_clone"]
    /\ UNCHANGED <<disk, ret>>

\* projects.py 157-203: the clone, the detection and the update of the run;
\* nothing is awaited between the rmtree and the end of the detection
TriggerAnalyse(s) ==
    /\ pc[s] = "t_clone"
    /\ \E cloned \in BOOLEAN :
           /\ disk' = Clone(disk, call[s].repo_url, cloned)
           /\ repo' = UpdateRun(repo, call[s].run_id, "status",
                                IF cloned THEN "completed" ELSE "failed")
    /\ pc' = [pc EXCEPT ![s] = "idle"]
    /\ call' = [call EXCEPT ![s] = NoLocals]
    /\ UNCHANGED ret

\* upload.py 160-186 and 62-64: upload_github_repo up to the answer of
\* find_one in _persist_and_survey
UploadClone(s) ==
    /\ pc[s] = "idle"
    /\ ret.started < MaxRequests
    /\ ret' = [started |-> ret.started + 1]
    /\ \E url \in Urls :
           \/ \* the clone fails: 400
              /\ disk' = Clone(disk, url, FALSE)
              /\ UNCHANGED <<pc, call>>
           \/ /\ disk' = Clone(disk, url, TRUE)
              /\ \/ \E existing \in repo.projects :
                        /\ existing.repo_url = url
                        /\ pc' = [pc EXCEPT ![s] = "u_count"]
                        /\ call' = [call EXCEPT ![s] =
                                      [NoLocals EXCEPT !.op = "upload_github_repo",
                                                       !.project_id = existing._id,
                                                       !.repo_url = url]]
                 \/ /\ \A p \in repo.projects : p.repo_url /= url
                    /\ pc' = [pc EXCEPT ![s] = "u_project"]
                    /\ call' = [call EXCEPT ![s] =
                                  [NoLocals EXCEPT !.op = "upload_github_repo",
                                                   !.repo_url = url]]
    /\ UNCHANGED repo

\* upload.py 68-76
UploadProject(s) ==
    /\ pc[s] = "u_project"
    /\ repo' = InsertProject(repo, call[s].repo_url)
    /\ call' = [call EXCEPT ![s].project_id = repo.next_id]
    /\ pc' = [pc EXCEPT ![s] = "u_count"]
    /\ UNCHANGED <<disk, ret>>

\* upload.py 79-80
UploadCount(s) ==
    /\ pc[s] = "u_count"
    /\ call' = [call EXCEPT ![s].run_count = CountRuns(repo.runs, call[s].project_id)]
    /\ pc' = [pc EXCEPT ![s] = "u_insert"]
    /\ UNCHANGED <<repo, disk, ret>>

\* upload.py 82-99
UploadInsert(s) ==
    /\ pc[s] = "u_insert"
    /\ repo' = InsertRun(repo, call[s].project_id, call[s].run_count + 1, "completed")
    /\ call' = [call EXCEPT ![s].run_id = repo.next_id]
    /\ pc' = [pc EXCEPT ![s] = "u_survey"]
    /\ UNCHANGED <<disk, ret>>

\* upload.py 106-128: the contributors are read from the log of whatever is
\* in project_dir now, and stored in the run when there are any
UploadSurvey(s) ==
    /\ pc[s] = "u_survey"
    /\ repo' = IF disk[project_dir(call[s].repo_url)] = Absent THEN repo
               ELSE UpdateRun(repo, call[s].run_id, "contributors_of",
                              disk[project_dir(call[s].repo_url)])
    /\ pc' = [pc EXCEPT ![s] = "idle"]
    /\ call' = [call EXCEPT ![s] = NoLocals]
    /\ UNCHANGED <<disk, ret>>

\* projects.py 234-250: delete_run up to the answer of the find_one of the run
DeleteFind(s) ==
    /\ pc[s] = "idle"
    /\ ret.started < MaxRequests
    /\ ret' = [started |-> ret.started + 1]
    /\ \/ \E run \in repo.runs :
              /\ \E p \in repo.projects : p._id = run.project_id
              /\ pc' = [pc EXCEPT ![s] = "d_delete"]
              /\ call' = [call EXCEPT ![s] =
                            [NoLocals EXCEPT !.op = "delete_run",
                                             !.project_id = run.project_id,
                                             !.run_id = run._id]]
       \/ \* 404: no such project or run
          UNCHANGED <<pc, call>>
    /\ UNCHANGED <<repo, disk>>

\* projects.py 254-255
DeleteOne(s) ==
    /\ pc[s] = "d_delete"
    /\ repo' = [repo EXCEPT !.runs = { r \in @ : r._id /= call[s].run_id }]
    /\ pc' = [pc EXCEPT ![s] = "idle"]
    /\ call' = [call EXCEPT ![s] = NoLocals]
    /\ UNCHANGED <<disk, ret>>

NextRuns ==
    \/ create_project
    \/ \E s \in Slots : TriggerFind(s)
    \/ \E s \in Slots : TriggerCount(s)
    \/ \E s \in Slots : TriggerInsert(s)
    \/ \E s \in Slots : TriggerAnalyse(s)
    \/ \E s \in Slots : UploadClone(s)
    \/ \E s \in Slots : UploadProject(s)
    \/ \E s \in Slots : UploadCount(s)
    \/ \E s \in Slots : UploadInsert(s)
    \/ \E s \in Slots : UploadSurvey(s)
    \/ \E s \in Slots : DeleteFind(s)
    \/ \E s \in Slots : DeleteOne(s)

SpecRuns == InitRuns /\ [][NextRuns]_vars

\* C29: after any sequence of trigger_run, upload and delete_run requests
\* on a project, overlapping ones included, no two stored runs of that
\* project have the same run_number.
C29_RunNumbersDistinct ==
    \A r1, r2 \in repo.runs :
        (r1.project_id = r2.project_id /\ r1.run_number = r2.run_number)
            => r1._id = r2._id

\* the project a run belongs to
ProjectOf(run) == CHOOSE p \in repo.projects : p._id = run.project_id

\* C25: two runs for different projects never use the same working
\* directory, so no run deletes or overwrites the checkout another run is
\* using: the requests in flight for different repositories have different
\* project directories, and what a run has read from its directory comes
\* from the checkout of its own project.
C25_OwnWorkingDirectory ==
    /\ \A s, t \in Slots :
           (/\ pc[s] /= "idle" /\ pc[t] /= "idle"
            /\ call[s].op /= "delete_run" /\ call[t].op /= "delete_run"
            /\ call[s].repo_url /= call[t].repo_url)
               => project_dir(call[s].repo_url) /= project_dir(call[t].repo_url)
    /\ \A run \in repo.runs :
           run.contributors_of \in {Absent, ProjectOf(run).repo_url}


(***************************************************************************)
(* SpecRepeat: the correlation and ranking stages run twice on the same    *)
(* commits and smell instances, each time with the iteration order of sets *)
(* that the run's process happens to have, then the ranking run again on   *)
(* the ranked records                                                      *)
(***************************************************************************)

MaxRepeatCommits == 2

RepeatChangeSets ==
    { << <<<<"1">>, <<"2">>, TestA>>, <<<<"2">>, <<"2">>, ProdA>>,
         <<<<"1">>, <<"0">>, ProdB>> >>,
      << <<<<"4">>, <<"1">>, PkgTestA>>, <<<<"3">>, <<"0">>, ProdB>> >>,
      << <<<<"3">>, <<"3">>, LibSuffixTest>>, <<<<"1">>, <<"1">>, ProdA>> >>,
      << <<<<"1">>, <<"1">>, TestA>>, <<<<"2">>, <<"1">>, PkgTestA>> >> }

\* the instance lists static analysis may hand over
RepeatInstances ==
    { << [type |-> "Assertion Roulette", line |-> 1, file |-> TestA] >>,
      << [type |-> "Assertion Roulette", line |-> 1, file |-> TestA],
         [type |-> "Empty Test", line |-> 2, file |-> PkgTestA],
         [type |-> "Sleepy Test", line |-> 3, file |-> LibSuffixTest] >>,
      << [type |-> "Empty Test", line |-> 1, file |-> LibSuffixTest],
         [type |-> "Assertion Roulette", line |-> 2, file |-> PkgTestA],
         [type |-> "Assertion Roulette", line |-> 3, file |-> TestA],
         [type |-> "Sleepy Test", line |-> 3, file |-> TestA] >> }

\* the orders in which a process may iterate over a set of production files
HashOrders == { <<ProdA, ProdB>>, <<ProdB, ProdA>> }

\* for pf in prod_files, in the order of the process
IterationOf(prod_files, hash_order) ==
    SelectSeq(hash_order, LAMBDA f : f \in prod_files)

\* only the first production file of the iteration counted
ProdSumsUntilFound(file_metrics, prod_files) ==
    IF prod_files = << >> THEN ZeroMetrics
    ELSE LookupMetrics(file_metrics, Head(prod_files))

\* lines 287-299: the four sums, adding file after file of the iteration
RECURSIVE ProdSumsOver(_, _)
ProdSumsOver(file_metrics, prod_files) ==
    IF prod_files = << >> THEN ZeroMetrics
    ELSE AddMetrics(ProdSumsOver(file_metrics,
                                 SubSeq(prod_files, 1, Len(prod_files) - 1)),
                    LookupMetrics(file_metrics, prod_files[Len(prod_files)]))

\* lines 264-308 with the iteration order of the process
VectorsIterating(test_files, file_metrics, cochange_map, prod_total, test_total, hash_order) ==
    [ keys |-> test_files,
      at   |-> [ tf \in Range(test_files) |->
                   Combine(ProdSumsOver(
                               file_metrics,
                               IterationOf(IF DictHas(cochange_map, tf)
                                           THEN cochange_map.at[tf] ELSE {},
                                           hash_order)),
                           LookupMetrics(file_metrics, tf),
                           prod_total, test_total) ] ]

\* lines 498-509 on a population
StagesOn(all_test_files, file_metrics, commits, smell_instances, hash_order) ==
    rank_smells(
        calculate_spearman_metrics(
            smell_instances,
            VectorsIterating(
                all_test_files, file_metrics,
                _build_cochange_map(all_test_files, commits),
                OrOne(TotalChanges(file_metrics,
                                   SelectSeq(file_metrics.keys, is_production_file))),
                OrOne(TotalChanges(file_metrics,
                                   SelectSeq(file_metrics.keys, is_test_file))),
                hash_order),
            all_test_files)).ranked

\* lines 475-509: the ranked records of one run
StagesOfFiles(file_metrics, commits, smell_instances, hash_order) ==
    StagesOn(PopulationOf(file_metrics, FilesOf(smell_instances)),
             file_metrics, commits, smell_instances, hash_order)

Stages(commits, smell_instances, hash_order) ==
    StagesOfFiles(_build_file_metrics(commits), commits, smell_instances, hash_order)

\* the ranked records as a mapping again, in their ranked order
AsMetrics(ranked) ==
    [ keys |-> [i \in 1..Len(ranked) |-> ranked[i].smell_type],
      at   |-> [ t \in { ranked[i].smell_type : i \in 1..Len(ranked) } |->
                   ranked[CHOOSE i \in 1..Len(ranked) : ranked[i].smell_type = t] ] ]

InitRepeat ==
    /\ pc = "setup"
    /\ repo = [git |-> "logfail", dotgit |-> TRUE, log |-> << >>]
    /\ disk = << >>
    /\ call = NoCall
    /\ ret = NoRet

CommitRepeat == GitCommitFrom(MaxRepeatCommits, MetricsSubjects, RepeatChangeSets)

\* the first run
RunStages ==
    /\ pc = "setup"
    /\ extract_git_history(repo).value /= << >>
    /\ \E smell_instances \in RepeatInstances, hash_order \in HashOrders :
           /\ call' = [op |-> "stages", smell_instances |-> smell_instances,
                       hash_orders |-> <<hash_order>>]
           /\ ret' = [raised |-> FALSE,
                      first  |-> Stages(extract_git_history(repo).value,
                                        smell_instances, hash_order),
                      second |-> << >>,
                      again  |-> << >>]
    /\ pc' = "ran"
    /\ UNCHANGED <<repo, disk>>

\* the second run, on the same inputs
RunStagesAgain ==
    /\ pc = "ran"
    /\ \E hash_order \in HashOrders :
           /\ call' = [call EXCEPT !.hash_orders = Append(@, hash_order)]
           /\ ret' = [ret EXCEPT !.second = Stages(extract_git_history(repo).value,
                                                   call.smell_instances, hash_order)]
    /\ pc' = "repeated"
    /\ UNCHANGED <<repo, disk>>

\* rank_smells on the records the second run has ranked
RankAgain ==
    /\ pc = "repeated"
    /\ ret' = [ret EXCEPT !.again = rank_smells(AsMetrics(ret.second)).ranked]
    /\ pc' = "done"
    /\ UNCHANGED <<repo, disk, call>>

NextRepeat == CommitRepeat \/ RunStages \/ RunStagesAgain \/ RankAgain

SpecRepeat == InitRepeat /\ [][NextRepeat]_vars

RepeatDone == pc = "done" /\ call.op = "stages"

\* the scores and the rank of a record, without the list of its files
ScoresIn(record) == [record EXCEPT !.files_with_smell = {}]

ScoresOfAll(ranked) == [i \in 1..Len(ranked) |-> ScoresIn(ranked[i])]

\* C23: two runs of the correlation and ranking stages on the same smell
\* instances, in the same order, and the same commits give the same scores
\* and the same ranked order, and ranking the ranked records again leaves
\* the order and the ranks as they are.
C23_SameScoresSameRanking ==
    RepeatDone =>
        /\ ScoresOfAll(ret.first) = ScoresOfAll(ret.second)
        /\ ScoresOfAll(ret.again) = ScoresOfAll(ret.second)

\* two runs that iterated in different orders over the two production files
\* co-changed with a test file, and ranked three types of which two differ
\* in score
C23_Witness ==
    /\ RepeatDone
    /\ call.hash_orders[1] /= call.hash_orders[2]
    /\ Len(ret.first) = 3
    /\ \E i \in 1..2 : ~ScoreSame(ret.first[i], ret.first[i + 1])
    /\ \E tf \in {TestA, PkgTestA, LibSuffixTest} :
           LET commits == extract_git_history(repo).value
               cochange_map ==
                   _build_cochange_map(
                       PopulationOf(_build_file_metrics(commits),
                                    FilesOf(call.smell_instances)), commits)
           IN  /\ DictHas(cochange_map, tf)
               /\ cochange_map.at[tf] = {ProdA, ProdB}


=============================================================================
